---- MODULE Spec2Model ----
(***************************************************************************)
(* Model of the Vulkan ShaderCache of Ishiiruka                            *)
(* (Source/Core/VideoBackends/Vulkan/ShaderCache.cpp): the per-stage       *)
(* shader maps and their LinearDiskCache stores, the usage-ranked and uber *)
(* precompile passes, Reload / teardown, and the device-bound pipeline     *)
(* cache blob with its header validation.                                  *)
(***************************************************************************)
EXTENDS Integers, Sequences, FiniteSets, TLC

\* ------------------------------------------------------------------------
\* Bounds of the model
\* ------------------------------------------------------------------------
\* uids known per shader stage
NumUids == 1
\* records a store file may hold when the process starts
MaxFileLen == 2
\* compiler invocations per process
MaxCompiles == 2
\* entries the pipeline maps hold between two clears
MaxPipelines == 2
\* passes of a post-processing shader
MaxPasses == 3

\* ------------------------------------------------------------------------
\* Values
\* ------------------------------------------------------------------------
Stages == {"vs", "ps", "gs", "vus", "pus"}
\* m_vs_cache / m_ps_cache hold an ObjectUsageProfiler, the others an unordered_map
UsageStages == {"vs", "ps"}
UberStages == {"vus", "pus"}
Uids == 1..NumUids
\* A uid object carries its content and a cached hash (HASH). The keys a file can
\* hold: 1..NumUids are the uids whose cached hash is the hash of their content,
\* as the callers of the lookups compute it; NumUids + u is the uid of content u
\* with another value in the cached hash, left by whatever wrote the record. The
\* maps place an entry by the cached hash, so the two are different keys.
StoredKeys == 1..(2 * NumUids)
\* "item.ClearHASH(); item.CalculateUIDHash();": the hash is computed from the
\* content anew
Rehash(key) == ((key - 1) % NumUids) + 1
\* SPIR-V payloads, as far as the cache tells them apart: the zero-length payload,
\* a binary the device rejects, the binary the compiler produces for a uid now,
\* and a binary an earlier run produced for it
Payloads == {"empty", "rejected", "spv", "old_spv"}

VK_NULL_HANDLE == [null |-> TRUE]
\* the compiler rejected the generated source: no SPIR-V
NoSpv == "none"
CompileOutcomes == {NoSpv, "rejected", "spv"}
\* no entry under the key
NoItem == [absent |-> TRUE]
\* a default-constructed vkShaderItem
NewItem == [initialized |-> FALSE, compiled |-> FALSE, module |-> VK_NULL_HANDLE]

\* A shader module handle. The fields tell the creations of one load apart: the
\* stage, the uid it was created for, the file record it was replayed from (0:
\* compiled by this process) and the payload it was built from.
Module(stage, uid, rec, spv) == [stage |-> stage, uid |-> uid, rec |-> rec, spv |-> spv]

\* Util::CreateShaderModule: null for a payload the device does not accept
CreateShaderModuleRejects(spv) == spv \in {"empty", "rejected"}

CreateShaderModule(stage, uid, rec, spv) ==
  IF CreateShaderModuleRejects(spv) THEN VK_NULL_HANDLE
  ELSE Module(stage, uid, rec, spv)

\* ------------------------------------------------------------------------
\* The pipeline cache blob: bytes, with the VK_PIPELINE_CACHE_HEADER in front
\* ------------------------------------------------------------------------
VK_UUID_SIZE == 16
HeaderSize == 32
VK_PIPELINE_CACHE_HEADER_VERSION_ONE == 1

\* a u32 as its four little-endian bytes
LE32(n) == << n % 256, (n \div 256) % 256, (n \div 65536) % 256, (n \div 16777216) % 256 >>

\* the u32 stored little-endian at byte offset off (0-based) of data
ReadU32(data, off) ==
  data[off + 1] + 256 * data[off + 2] + 65536 * data[off + 3] + 16777216 * data[off + 4]

\* std::memcpy(&header, data, sizeof(header))
ReadHeader(data) ==
  [header_length  |-> ReadU32(data, 0),
   header_version |-> ReadU32(data, 4),
   vendor_id      |-> ReadU32(data, 8),
   device_id      |-> ReadU32(data, 12),
   uuid           |-> SubSeq(data, 17, 16 + VK_UUID_SIZE)]

\* the bytes of a header followed by body
MakeBlob(hlen, version, vendor, device, uuid, body) ==
  LE32(hlen) \o LE32(version) \o LE32(vendor) \o LE32(device) \o uuid \o body

\* 16 bytes, all b except the last, which is last
Uuid(b, last) == [i \in 1..VK_UUID_SIZE |-> IF i = VK_UUID_SIZE THEN last ELSE b]

\* VkPhysicalDeviceProperties of the devices the model knows
Devices ==
  { [vendorID |-> 4318, deviceID |-> 7040, pipelineCacheUUID |-> Uuid(171, 1)],
    [vendorID |-> 4098, deviceID |-> 26591, pipelineCacheUUID |-> Uuid(171, 2)] }

ValidatePipelineCacheLengthBad(data_length) == data_length < HeaderSize

\* a validation that stops after the device id
ValidatePipelineCacheSkipsUuid(dev, data) ==
  IF ValidatePipelineCacheLengthBad(Len(data)) THEN FALSE
  ELSE LET header == ReadHeader(data) IN
       IF header.header_length < HeaderSize THEN FALSE
       ELSE IF header.header_version # VK_PIPELINE_CACHE_HEADER_VERSION_ONE THEN FALSE
       ELSE IF header.vendor_id # dev.vendorID THEN FALSE
       ELSE IF header.device_id # dev.deviceID THEN FALSE
       ELSE TRUE

\* ShaderCache::ValidatePipelineCache(data, data_length) on the device dev
ValidatePipelineCache(dev, data) ==
  IF ValidatePipelineCacheLengthBad(Len(data)) THEN FALSE
  ELSE LET header == ReadHeader(data) IN
       IF header.header_length < HeaderSize THEN FALSE
       ELSE IF header.header_version # VK_PIPELINE_CACHE_HEADER_VERSION_ONE THEN FALSE
       ELSE IF header.vendor_id # dev.vendorID THEN FALSE
       ELSE IF header.device_id # dev.deviceID THEN FALSE
       ELSE IF header.uuid # dev.pipelineCacheUUID THEN FALSE
       ELSE TRUE


\* a blob the runtime produces for device dev: a good header and one body byte
DeviceBlob(dev, b) ==
  MakeBlob(HeaderSize, VK_PIPELINE_CACHE_HEADER_VERSION_ONE, dev.vendorID, dev.deviceID,
           dev.pipelineCacheUUID, << b >>)

\* ------------------------------------------------------------------------
\* Files
\* ------------------------------------------------------------------------
\* a file that does not exist, and a file holding records
NoFile == [exists |-> FALSE, recs |-> << >>]
File(recs) == [exists |-> TRUE, recs |-> recs]
\* a LinearDiskCache with no open file, and one open on a file name
Closed == [open |-> FALSE, name |-> << "", "" >>]
OpenOn(name) == [open |-> TRUE, name |-> name]
GameIDs == {"GALE01"}
\* what SConfig::GetGameID() may give later in a run: the id of another game
\* (a disc change), or the empty id once "the game's unique ID is already cleared"
LaterGameIDs == {"GZLE01", ""}
StoreType(stage) ==
  CASE stage = "vs" -> "vs" [] stage = "ps" -> "ps" [] stage = "gs" -> "gs"
    [] stage = "vus" -> "UVS" [] stage = "pus" -> "UPS"
FileTypes == {StoreType(s) : s \in Stages} \cup {"pipeline"}
FileNames == FileTypes \X (GameIDs \cup LaterGameIDs)

\* GetDiskShaderCacheFileName(API_VULKAN, type, include_gameid, true)
GetDiskShaderCacheFileName(game, type, include_gameid) ==
  << type, IF include_gameid THEN game ELSE "" >>

\* the file name LoadShaderCaches opens for a stage
StoreFileName(game, stage) ==
  GetDiskShaderCacheFileName(game, StoreType(stage), stage \notin UberStages)

\* the records of a file, none when it does not exist
Records(f) == f.recs

\* ------------------------------------------------------------------------
\* State
\* ------------------------------------------------------------------------
VARIABLES
  pc,                        \* lifecycle of the ShaderCache object
  env,                       \* device properties, geometry shader support, game id
  shader_map,                \* m_*_cache.shader_map: stage -> uid -> item
  disk_cache,                \* m_*_cache.disk_cache: stage -> the open file, if any
  files,                     \* the file system: name -> records or NoFile
  usage,                     \* usage profile of the vs / ps ObjectUsageProfiler
  usage_map,                 \* whether m_vs_cache / m_ps_cache.shader_map owns a profiler
  m_pipeline_cache,          \* the runtime pipeline cache object or VK_NULL_HANDLE
  m_pipeline_cache_filename,
  m_pipeline_objects,        \* PipelineInfo -> (pipeline, true)
  m_compute_pipeline_objects, \* ComputePipelineInfo -> pipeline
  m_passes,                  \* the passes of the post-processing shader
  m_ready,                   \* m_ready of the post-processing shader
  in_flight,                 \* submitted GPU work that has not completed
  shared,                    \* the four shared shader modules
  compile_calls,             \* stage -> uid -> compiler invocations in this process
  outcome,                   \* stage -> uid -> what the compiles since the load produced
  probe,                     \* blob handed to ValidatePipelineCache
  live,                      \* the shader modules and pipelines created and not destroyed
  live_caches,               \* the runtime pipeline cache objects created and not destroyed
  created,                   \* pipeline key -> creations since the maps were cleared
  faults,                    \* misuses of the Vulkan API seen so far
  trace,                     \* the calls the last handler made, in order
  threads,                   \* the lookups in progress, one per calling thread
  reports,                   \* the Host_UpdateProgressDialog calls of the last handler
  last                       \* the last call and what it returned

vars == << pc, env, shader_map, disk_cache, files, usage, usage_map, m_pipeline_cache,
           m_pipeline_cache_filename, m_pipeline_objects, m_compute_pipeline_objects,
           m_passes, m_ready, in_flight, shared, compile_calls, outcome, probe, live, live_caches,
           created, faults, trace, threads, reports, last >>

\* the program state handed through the handlers
Cur ==
  [map |-> shader_map, open |-> disk_cache, files |-> files, usage |-> usage,
   has_map |-> usage_map,
   pcache |-> m_pipeline_cache, pname |-> m_pipeline_cache_filename,
   pobjs |-> m_pipeline_objects, cobjs |-> m_compute_pipeline_objects,
   passes |-> m_passes, ready |-> m_ready, in_flight |-> in_flight, shared |-> shared,
   calls |-> compile_calls, outcome |-> outcome, env |-> env,
   live |-> live, caches |-> live_caches, created |-> created, faults |-> faults,
   trace |-> << >>, threads |-> threads, reports |-> << >>]

Install(S) ==
  /\ shader_map' = S.map
  /\ disk_cache' = S.open
  /\ files' = S.files
  /\ usage' = S.usage
  /\ usage_map' = S.has_map
  /\ m_pipeline_cache' = S.pcache
  /\ m_pipeline_cache_filename' = S.pname
  /\ m_pipeline_objects' = S.pobjs
  /\ m_compute_pipeline_objects' = S.cobjs
  /\ m_passes' = S.passes
  /\ m_ready' = S.ready
  /\ in_flight' = S.in_flight
  /\ live' = S.live
  /\ live_caches' = S.caches
  /\ created' = S.created
  /\ faults' = S.faults
  /\ trace' = S.trace
  /\ threads' = S.threads
  /\ reports' = S.reports
  /\ shared' = S.shared
  /\ compile_calls' = S.calls
  /\ outcome' = S.outcome
  /\ env' = S.env

\* the threads that call the lookups, and a thread that is in no lookup
Threads == {"t1", "t2"}
Idle == [at |-> "idle"]

\* a pass of the post-processing shader before RecompileShaders: no
\* RenderPassVulkanData yet
NoPass == [shader |-> FALSE, m_fragment_shader |-> VK_NULL_HANDLE]

NoShared == [screen_quad_vs |-> VK_NULL_HANDLE, passthrough_vs |-> VK_NULL_HANDLE,
             screen_quad_gs |-> VK_NULL_HANDLE, passthrough_gs |-> VK_NULL_HANDLE]

\* ------------------------------------------------------------------------
\* The device: handles and submitted work
\* ------------------------------------------------------------------------
\* the name of a call is added to the trace of the running handler
Log(S, name) == [S EXCEPT !.trace = Append(@, name)]

\* a handle the device returned from a vkCreate* call; a failed creation
\* returns VK_NULL_HANDLE and creates nothing
Created(S, handle) ==
  IF handle = VK_NULL_HANDLE THEN S ELSE [S EXCEPT !.live = @ \cup {handle}]

\* the keys of m_pipeline_objects that name the module in a shader field
KeysWith(S, module) == {k \in DOMAIN S.pobjs : k.vs = module \/ k.ps = module}

\* vkDestroyShaderModule / vkDestroyPipeline on a handle
VkDestroy(S00, handle) ==
  LET S0 == IF KeysWith(S00, handle) # {} THEN [S00 EXCEPT !.faults = @ \cup {"destroy_keyed"}]
            ELSE S00
      S == Log(S0, "vkDestroy") IN
  IF handle = VK_NULL_HANDLE THEN [S EXCEPT !.faults = @ \cup {"destroy_null"}]
  ELSE IF handle \notin S.live THEN [S EXCEPT !.faults = @ \cup {"double_destroy"}]
  ELSE [S EXCEPT !.live = @ \ {handle}]

\* ------------------------------------------------------------------------
\* LinearDiskCache
\* ------------------------------------------------------------------------
\* LinearDiskCache::Append: one record at the end of the open file
DiskAppend(S, stage, key, value) ==
  IF ~S.open[stage].open THEN S
  ELSE [S EXCEPT !.files[S.open[stage].name] =
                    File(Append(Records(@), [key |-> key, value |-> value]))]

\* a teardown that leaves the file of the store open
DiskCloseLeavesOpen(S, stage) == S

\* LinearDiskCache::Sync and Close
DiskClose(S, stage) == [S EXCEPT !.open[stage] = Closed]

\* ------------------------------------------------------------------------
\* ObjectUsageProfiler (vs, ps) and unordered_map (gs, vus, pus)
\* ------------------------------------------------------------------------
\* GetOrAdd / operator[]: the entry under uid, default-constructed when absent;
\* the profiler also records the use
GetOrAdd(S, stage, uid) ==
  LET S1 == IF S.map[stage][uid] = NoItem THEN [S EXCEPT !.map[stage][uid] = NewItem] ELSE S
  IN IF stage \in UsageStages THEN [S1 EXCEPT !.usage[stage] = @ \cup {uid}] ELSE S1

\* the key a replayed record is stored under: the key as read from the file
ReplayKey(key) == key

\* a reader that inserts the entry whether or not the module was created
ReaderReadKeepsNull(S, stage, rec, idx) ==
  LET module == CreateShaderModule(stage, rec.key, idx, rec.value)
      S1 == GetOrAdd(S, stage, ReplayKey(rec.key))
  IN [S1 EXCEPT !.map[stage][ReplayKey(rec.key)] =
                   [initialized |-> TRUE, compiled |-> TRUE, module |-> module]]

\* a reader that leaves an entry it finds under the key as it is
ReaderReadKeepsFirst(S, stage, rec, idx) ==
  LET module == CreateShaderModule(stage, rec.key, idx, rec.value) IN
  IF module = VK_NULL_HANDLE \/ S.map[stage][ReplayKey(rec.key)] # NoItem THEN S
  ELSE LET S1 == GetOrAdd(S, stage, ReplayKey(rec.key)) IN
       [S1 EXCEPT !.map[stage][ReplayKey(rec.key)] =
                     [initialized |-> TRUE, compiled |-> TRUE, module |-> module]]

\* a reader that does not set the initialized flag
ReaderReadLeavesFlagClear(S, stage, rec, idx) ==
  LET module == CreateShaderModule(stage, rec.key, idx, rec.value) IN
  IF module = VK_NULL_HANDLE THEN S
  ELSE LET S1 == GetOrAdd(S, stage, ReplayKey(rec.key)) IN
       [S1 EXCEPT !.map[stage][ReplayKey(rec.key)] =
                     [initialized |-> FALSE, compiled |-> TRUE, module |-> module]]

\* ShaderUsageCacheReader::Read / ShaderCacheReader::Read for record idx of the file
ReaderRead(S, stage, rec, idx) ==
  LET module == CreateShaderModule(stage, rec.key, idx, rec.value) IN
  IF module = VK_NULL_HANDLE THEN S
  ELSE LET S1 == GetOrAdd(Created(S, module), stage, ReplayKey(rec.key)) IN
       [S1 EXCEPT !.map[stage][ReplayKey(rec.key)] =
                     [initialized |-> TRUE, compiled |-> TRUE, module |-> module]]

RECURSIVE ReplayFrom(_, _, _, _)
\* the records idx.. of recs handed to the reader in file order
ReplayFrom(S, stage, recs, idx) ==
  IF idx > Len(recs) THEN S
  ELSE ReplayFrom(ReaderRead(S, stage, recs[idx], idx), stage, recs, idx + 1)

\* disk_cache.OpenAndRead(name, reader) of a shader store
OpenAndRead(S, stage) ==
  LET name == StoreFileName(S.env.game, stage)
      recs == Records(S.files[name])
      S1 == [S EXCEPT !.files[name] = File(recs), !.open[stage] = OpenOn(name),
                      !.faults = IF S.open[stage].open THEN @ \cup {"open_while_open"} ELSE @]
  IN ReplayFrom(S1, stage, recs, 1)


\* ------------------------------------------------------------------------
\* Compile and lookup
\* ------------------------------------------------------------------------
Item(S, stage, uid) == IF S.map[stage][uid] = NoItem THEN NewItem ELSE S.map[stage][uid]

\* a test of the flag that never finds it set
TestAndSetNeverSet(item) == FALSE

\* a test that sends an entry without a module back to the compiler
TestAndSetRetriesNull(item) == item.initialized /\ item.module # VK_NULL_HANDLE

\* it.initialized.test_and_set(): the flag before the call; the flag is set after it
TestAndSet(item) == item.initialized

\* an append that does not look at the module
CompileAppendsAlways(module) == TRUE

\* "Append to shader cache if it created successfully."
CompileAppends(module) == module # VK_NULL_HANDLE

\* a flag that records the success of the compile
CompiledFlagOnSuccess(module) == module # VK_NULL_HANDLE

\* the value Compile*ShaderForUid stores in it.compiled
CompiledFlag(module) == TRUE

\* Compile{Vertex,Pixel,Geometry,VertexUber,PixelUber}ShaderForUid(uid, it): out is
\* what ShaderCompiler produced for the generated source
CompileShaderForUid(S, stage, uid, out) ==
  LET module == IF out = NoSpv THEN VK_NULL_HANDLE
                ELSE CreateShaderModule(stage, uid, 0, out)
      S0 == Created(S, module)
      S1 == IF CompileAppends(module) THEN DiskAppend(S0, stage, uid, out) ELSE S0
  IN [S1 EXCEPT !.map[stage][uid] = [@ EXCEPT !.compiled = CompiledFlag(module),
                                               !.module = module],
                !.calls[stage][uid] = @ + 1,
                !.outcome[stage][uid] = Append(@, out)]

\* a body that compiles without testing the flag
ResolveAlwaysCompiles(S, stage, uid, out) ==
  LET S1 == GetOrAdd(S, stage, uid)
  IN CompileShaderForUid([S1 EXCEPT !.map[stage][uid].initialized = TRUE], stage, uid, out)

\* the body shared by the lookups and the visitors of the precompile passes:
\* GetOrAdd / operator[], test_and_set, compile when the flag was clear
Resolve(S, stage, uid, out) ==
  LET S1 == GetOrAdd(S, stage, uid)
      was == TestAndSet(S1.map[stage][uid])
      S2 == [S1 EXCEPT !.map[stage][uid].initialized = TRUE]
  IN IF was THEN S2 ELSE CompileShaderForUid(S2, stage, uid, out)

\* the handle a lookup returns: it.module
LookupResult(S, stage, uid) == S.map[stage][uid].module

\* Get*ShaderForUid(uid); hit says that test_and_set found the flag set, so that
\* the call returned the stored module without compiling
GetShaderForUid(S, stage, uid, out) ==
  LET S1 == Resolve(S, stage, uid, out)
  IN [st |-> S1, ret |-> LookupResult(S1, stage, uid),
      hit |-> TestAndSet(Item(S, stage, uid))]

\* ------------------------------------------------------------------------
\* Precompile passes
\* ------------------------------------------------------------------------
RECURSIVE SortedSeq(_)
\* a set of uids as a sequence, in the order the enumeration visits them
SortedSeq(set) ==
  IF set = {} THEN << >>
  ELSE LET m == CHOOSE x \in set : \A y \in set : x <= y
       IN << m >> \o SortedSeq(set \ {m})

\* the predicate CompileShaders hands to ForEachMostUsedByCategory
NotCompiled(item) == ~item.compiled

\* ObjectUsageProfiler::ForEachMostUsedByCategory: the keys of the profile whose
\* entry passes the predicate
UsageCandidates(S, stage) == {u \in S.usage[stage] : NotCompiled(Item(S, stage, u))}

\* the uids a pass over a stage visits
PassUids(S, stage) ==
  IF stage \in UsageStages THEN UsageCandidates(S, stage) ELSE Uids

\* Host_UpdateProgressDialog(label, current, total)
Report(S, label, current, total) ==
  [S EXCEPT !.reports = Append(@, [label |-> label, current |-> current, total |-> total])]

\* Host_UpdateProgressDialog("", -1, -1)
ReportDone(S) == Report(S, "", -1, -1)

PassLabel(stage) ==
  CASE stage = "vs" -> "Compiling Vertex shaders..."
    [] stage = "ps" -> "Compiling Pixel shaders..."
    [] stage = "gs" -> "Compiling Geometry shaders..."
    [] stage = "vus" -> "Compiling Vertex Uber shaders..."
    [] stage = "pus" -> "Compiling Pixel Uber shaders..."

\* shader_count as a visitor hands it to the progress dialog after visited keys:
\* the geometry and uber visitors run "shader_count++", the vertex and pixel
\* visitors of CompileShaders leave it at the 0 it was set to
ShaderCount(stage, visited) == IF stage \in UsageStages THEN 0 ELSE visited

\* the uber visitors report every key, the visitors of CompileShaders report
\* inside "if (!it.initialized.test_and_set())"
ReportsKey(stage, was) == stage \in UberStages \/ ~was

RECURSIVE VisitAll(_, _, _, _, _)
\* the visitor of a pass run on uids[i..]; the total it is handed is the number of
\* keys of the pass
VisitAll(S, stage, uids, i, oracle) ==
  IF i > Len(uids) THEN S
  ELSE LET uid == IF stage \in UberStages THEN uids[i] ELSE Rehash(uids[i])
           out == oracle[<< stage, uid >>]
           was == TestAndSet(Item(S, stage, uid))
           S1 == Resolve(S, stage, uid, out)
           S2 == IF ReportsKey(stage, was)
                 THEN Report(S1, PassLabel(stage), ShaderCount(stage, i), Len(uids))
                 ELSE S1
       IN VisitAll(S2, stage, uids, i + 1, oracle)

Pass(S, stage, oracle) == VisitAll(S, stage, SortedSeq(PassUids(S, stage)), 1, oracle)

\* ShaderCache::CompileUberShaders
CompileUberShaders(S, oracle) ==
  ReportDone(Pass(ReportDone(Pass(Log(S, "CompileUberShaders"), "vus", oracle)), "pus", oracle))

\* ShaderCache::CompileShaders
CompileShaders(S, oracle) ==
  LET S1 == Pass(Pass(Log(S, "CompileShaders"), "vs", oracle), "ps", oracle)
  IN ReportDone(IF S.env.supports_gs THEN Pass(S1, "gs", oracle) ELSE S1)

\* the keys a pass over these stages would hand to the compiler
Targets(S, stages) ==
  {k \in stages \X Uids : /\ k[2] \in {Rehash(uid) : uid \in PassUids(S, k[1])}
                          /\ ~TestAndSet(Item(S, k[1], k[2]))}

SpecializedStages(S) == IF S.env.supports_gs THEN {"vs", "ps", "gs"} ELSE {"vs", "ps"}

\* g_ActiveConfig as read by a call
Configs ==
  [uber : BOOLEAN, startup : BOOLEAN, disable_specialized : BOOLEAN, stereo : BOOLEAN]

\* a test that does not look at forcecompile
RunsCompileShadersOnStartupOnly(cfg, forcecompile) ==
  cfg.startup /\ ~cfg.disable_specialized

\* "(bCompileShaderOnStartup || forcecompile) && !bDisableSpecializedShaders"
RunsCompileShaders(cfg, forcecompile) ==
  (cfg.startup \/ forcecompile) /\ ~cfg.disable_specialized

\* the keys LoadShaderCaches compiles after the replay
LoadTargets(S, cfg, forcecompile) ==
  (IF cfg.uber THEN Targets(S, UberStages) ELSE {})
  \cup (IF RunsCompileShaders(cfg, forcecompile) THEN Targets(S, SpecializedStages(S)) ELSE {})


\* ------------------------------------------------------------------------
\* LoadShaderCaches / DestroyShaderCaches
\* ------------------------------------------------------------------------
EmptyMap == [u \in StoredKeys |-> NoItem]
\* the shader_map pointers of m_vs_cache and m_ps_cache after construction: null
NoUsageMaps == [s \in UsageStages |-> FALSE]

\* LoadShaderCaches up to the last OpenAndRead: the vs and ps profilers are
\* created anew, then every store is opened and replayed
LoadReplay(S) ==
  LET S0 == [Log(S, "LoadShaderCaches") EXCEPT !.map["vs"] = EmptyMap, !.map["ps"] = EmptyMap,
                                               !.has_map = [s \in UsageStages |-> TRUE]]
      S1 == OpenAndRead(OpenAndRead(S0, "vs"), "ps")
      S2 == IF S.env.supports_gs THEN OpenAndRead(S1, "gs") ELSE S1
  IN OpenAndRead(OpenAndRead(S2, "vus"), "pus")

\* the rest of LoadShaderCaches: the precompile passes the configuration asks for
LoadCompile(S, cfg, forcecompile, oracle) ==
  LET S1 == IF cfg.uber THEN CompileUberShaders(S, oracle) ELSE S
  IN IF RunsCompileShaders(cfg, forcecompile) THEN CompileShaders(S1, oracle) ELSE S1

\* "if (it.second.module != VK_NULL_HANDLE)" / "if (it.module != VK_NULL_HANDLE)"
DestroysModule(module) == module # VK_NULL_HANDLE

RECURSIVE DestroyModules(_, _, _)
\* the loop over the entries of a shader map that destroys their modules
DestroyModules(S, stage, uids) ==
  IF uids = {} THEN S
  ELSE LET u == CHOOSE x \in uids : TRUE
           module == S.map[stage][u].module
       IN DestroyModules(IF DestroysModule(module) THEN VkDestroy(S, module) ELSE S,
                         stage, uids \ {u})

\* "shader_map->Persist(...)" and "shader_map->ForEach(...)" on the profiler of a
\* usage stage: a null pointer is dereferenced when the stage owns none
Dereference(S, stage) ==
  IF stage \in UsageStages /\ ~S.has_map[stage]
  THEN [S EXCEPT !.faults = @ \cup {"null_map"}] ELSE S

\* DestroyShaderUsageCache / DestroyShaderCache: the store is synced and closed,
\* every non-null module destroyed, the map reset
DestroyShaderCache(S0, stage) ==
  LET S == Dereference(S0, stage)
      S1 == DestroyModules(DiskClose(S, stage), stage,
                           {u \in StoredKeys : S.map[stage][u] # NoItem})
      S2 == [S1 EXCEPT !.map[stage] = EmptyMap,
                       !.outcome[stage] = [u \in Uids |-> << >>]]
  IN IF stage \in UsageStages THEN [S2 EXCEPT !.has_map[stage] = FALSE] ELSE S2

\* ShaderCache::DestroyShaderCaches
DestroyShaderCaches(S0) ==
  LET S == Log(S0, "DestroyShaderCaches")
      S1 == DestroyShaderCache(DestroyShaderCache(S, "vs"), "ps")
      S2 == IF S.env.supports_gs THEN DestroyShaderCache(S1, "gs") ELSE S1
  IN DestroyShaderCache(DestroyShaderCache(S2, "vus"), "pus")

\* ------------------------------------------------------------------------
\* The pipeline cache
\* ------------------------------------------------------------------------
\* an empty m_pipeline_objects / m_compute_pipeline_objects, and no creations
NoPipelines == [k \in {} |-> VK_NULL_HANDLE]
NoCreations == [k \in {} |-> 0]

\* an entry stored with the flag of the call that created it
EntryAsReturned(pipeline) == [first |-> pipeline, second |-> FALSE]

\* the stored value of a graphics entry: std::pair<VkPipeline, bool>
Entry(pipeline) == [first |-> pipeline, second |-> TRUE]

\* vkDestroyPipeline: work in flight must not refer to the pipeline
VkDestroyPipeline(S, pipeline) ==
  VkDestroy([S EXCEPT !.faults = IF pipeline \in S.in_flight
                                  THEN @ \cup {"destroy_in_flight"} ELSE @], pipeline)

\* a clear that hands every entry to vkDestroyPipeline
ClearDestroysAlways(pipeline) == TRUE

\* "if (it.second.first != VK_NULL_HANDLE)" / "if (it.second != VK_NULL_HANDLE)"
ClearDestroys(pipeline) == pipeline # VK_NULL_HANDLE

RECURSIVE DestroyPipelines(_, _, _)
\* the loop of ClearPipelineCache over the entries under keys; handle_of gives the
\* pipeline of an entry
DestroyPipelines(S, handle_of, keys) ==
  IF keys = {} THEN S
  ELSE LET k == CHOOSE x \in keys : TRUE
       IN DestroyPipelines(IF ClearDestroys(handle_of[k]) THEN VkDestroyPipeline(S, handle_of[k])
                           ELSE S,
                           handle_of, keys \ {k})

\* ShaderCache::ClearPipelineCache
ClearPipelineCache(S0) ==
  LET S == Log(S0, "ClearPipelineCache")
      S1 == DestroyPipelines(S, [k \in DOMAIN S.pobjs |-> S.pobjs[k].first], DOMAIN S.pobjs)
      S2 == DestroyPipelines([S1 EXCEPT !.pobjs = NoPipelines], S.cobjs, DOMAIN S.cobjs)
  IN [S2 EXCEPT !.cobjs = NoPipelines, !.created = NoCreations]

\* ZMode::CompareMode: the compare functions of the emulated hardware, by value
CompareModes ==
  << "NEVER", "LESS", "EQUAL", "LEQUAL", "GREATER", "NEQUAL", "GEQUAL", "ALWAYS" >>
\* DepthState: two one-bit fields and the three-bit compare function
DepthStates == [testenable : BOOLEAN, updateenable : BOOLEAN, func : 0..7]

\* a table that passes every compare function through
funcsNotSwapped ==
  << "VK_COMPARE_OP_NEVER", "VK_COMPARE_OP_LESS", "VK_COMPARE_OP_EQUAL",
     "VK_COMPARE_OP_LESS_OR_EQUAL", "VK_COMPARE_OP_GREATER", "VK_COMPARE_OP_NOT_EQUAL",
     "VK_COMPARE_OP_GREATER_OR_EQUAL", "VK_COMPARE_OP_ALWAYS" >>

\* the table of GetVulkanDepthStencilState, indexed from 1
funcs ==
  << "VK_COMPARE_OP_NEVER", "VK_COMPARE_OP_GREATER", "VK_COMPARE_OP_EQUAL",
     "VK_COMPARE_OP_GREATER_OR_EQUAL", "VK_COMPARE_OP_LESS", "VK_COMPARE_OP_NOT_EQUAL",
     "VK_COMPARE_OP_LESS_OR_EQUAL", "VK_COMPARE_OP_ALWAYS" >>

\* GetVulkanDepthStencilState: the fields of the create info that depend on state
GetVulkanDepthStencilState(state) ==
  [depthTestEnable |-> state.testenable,
   depthWriteEnable |-> state.updateenable,
   depthCompareOp |-> funcs[state.func + 1],
   depthBoundsTestEnable |-> FALSE,
   stencilTestEnable |-> FALSE]

\* PipelineInfo as far as the cache tells keys apart: the vertex and the fragment
\* shader module, and the blend state standing for the state fields
BlendStates == {"opaque", "alpha"}
\* the vertex / fragment modules a caller can put into a PipelineInfo: the
\* handles it got from the lookups and the shared and post-processing shaders
VertexShaders(S) ==
  ({S.map["vs"][u].module : u \in {x \in Uids : S.map["vs"][x] # NoItem}}
   \cup {S.shared["passthrough_vs"]}) \ {VK_NULL_HANDLE}
FragmentShaders(S) ==
  ({S.map["ps"][u].module : u \in {x \in Uids : S.map["ps"][x] # NoItem}}
   \cup {S.passes[i].m_fragment_shader : i \in DOMAIN S.passes}) \ {VK_NULL_HANDLE}
GraphicsInfos(S) ==
  [vs : VertexShaders(S), ps : FragmentShaders(S), blend : BlendStates]
\* ComputePipelineInfo: the compute shader of the texture decoder it is made for
ComputeInfos == {[cs |-> "decode_i4"], [cs |-> "decode_rgba8"]}

\* a pipeline handle; the key tells the creations apart
Pipeline(info) == [pipeline |-> info]

CreationsOf(S, info) == IF info \in DOMAIN S.created THEN S.created[info] ELSE 0
Counted(S, info) ==
  [S EXCEPT !.created = [k \in DOMAIN @ \cup {info} |-> IF k = info THEN CreationsOf(S, info) + 1
                                                       ELSE @[k]]]

\* what the runtime cache object holds after a pipeline was created through it
Absorbed(cache) == [data |-> [cache.data EXCEPT ![Len(cache.data)] = 1]]

\* ShaderCache::CreatePipeline: vkCreateGraphicsPipelines through m_pipeline_cache;
\* ok says whether it succeeds
CreatePipeline(S, info, ok) ==
  LET pipeline == IF ok THEN Pipeline(info) ELSE VK_NULL_HANDLE
      S1 == Created(Counted(Log(S, "CreatePipeline"), info), pipeline)
  IN [st |-> IF ok /\ S.pcache # VK_NULL_HANDLE THEN [S1 EXCEPT !.pcache = Absorbed(@)] ELSE S1,
      ret |-> pipeline]

\* ShaderCache::CreateComputePipeline: vkCreateComputePipelines with no pipeline cache
CreateComputePipeline(S, info, ok) ==
  LET pipeline == IF ok THEN Pipeline(info) ELSE VK_NULL_HANDLE
  IN [st |-> Created(Counted(Log(S, "CreateComputePipeline"), info), pipeline),
      ret |-> pipeline]

\* emplace(key, value): no effect when the key is present
Emplace(map, key, value) ==
  [k \in DOMAIN map \cup {key} |-> IF k \in DOMAIN map THEN map[k] ELSE value]

\* a lookup that keeps no entry for a creation that failed
GetPipelineWithCacheResultDropsFailed(S, info, ok) ==
  IF info \in DOMAIN S.pobjs THEN [st |-> S, ret |-> S.pobjs[info]]
  ELSE LET C == CreatePipeline(S, info, ok)
       IN [st |-> IF ok THEN [C.st EXCEPT !.pobjs = Emplace(@, info, Entry(C.ret))] ELSE C.st,
           ret |-> [first |-> C.ret, second |-> FALSE]]

\* a lookup that creates the pipeline whether or not the key is present
GetPipelineWithCacheResultNoFind(S, info, ok) ==
  LET C == CreatePipeline(S, info, ok)
  IN [st |-> [C.st EXCEPT !.pobjs = Emplace(@, info, Entry(C.ret))],
      ret |-> [first |-> C.ret, second |-> FALSE]]

\* ShaderCache::GetPipelineWithCacheResult
GetPipelineWithCacheResult(S, info, ok) ==
  IF info \in DOMAIN S.pobjs THEN [st |-> S, ret |-> S.pobjs[info]]
  ELSE LET C == CreatePipeline(S, info, ok)
       IN [st |-> [C.st EXCEPT !.pobjs = Emplace(@, info, Entry(C.ret))],
           ret |-> [first |-> C.ret, second |-> FALSE]]

\* ShaderCache::GetPipeline
GetPipeline(S, info, ok) ==
  LET R == GetPipelineWithCacheResult(S, info, ok) IN [st |-> R.st, ret |-> R.ret.first]

\* ShaderCache::GetComputePipeline
GetComputePipeline(S, info, ok) ==
  IF info \in DOMAIN S.cobjs THEN [st |-> S, ret |-> S.cobjs[info]]
  ELSE LET C == CreateComputePipeline(S, info, ok)
       IN [st |-> [C.st EXCEPT !.cobjs = Emplace(@, info, C.ret)], ret |-> C.ret]

\* PipelineCacheReadCallback over the records of the file: the data of the last
\* record read, and LinearDiskCache::OpenAndRead's count of records
ReadPipelineFile(recs) ==
  [count |-> Len(recs), data |-> IF Len(recs) = 0 THEN << >> ELSE recs[Len(recs)].value]

\* a load that keeps the data only when the file held no record
LoadedDataWantsNone(rd) == IF rd.count # 0 THEN << >> ELSE rd.data

\* "if (disk_cache.OpenAndRead(...) != 1) disk_data.clear()"
LoadedData(rd) == IF rd.count # 1 THEN << >> ELSE rd.data

\* "File::Delete(m_pipeline_cache_filename)" of a blob that failed validation
DeleteInvalid(S, name) == [S EXCEPT !.files[name] = NoFile]

\* a seed that is the loaded data whatever the validation said
SeedForUnchecked(disk_data, valid) == disk_data

\* the seed handed to the first vkCreatePipelineCache
SeedFor(disk_data, valid) == IF disk_data # << >> /\ ~valid THEN << >> ELSE disk_data

\* the runtime object vkCreatePipelineCache makes from a seed
PipelineCacheObject(dev, seed) ==
  [data |-> IF seed = << >> THEN DeviceBlob(dev, 0) ELSE seed]

\* a retry that hands the loaded seed to the runtime again
CreateSeedsRetrySame(seed, res1) == IF res1 THEN << seed >> ELSE << seed, seed >>

\* the pInitialData of the vkCreatePipelineCache calls, in order: the seed, and
\* after a failure "Failed to create pipeline cache, trying again without data"
CreateSeeds(seed, res1) == IF res1 THEN << seed >> ELSE << seed, << >> >>

\* the runtime pipeline cache objects, by what refers to them: the object
\* m_pipeline_cache holds, and every object whose handle was overwritten
CacheRoles == {"held", "orphaned"}

\* a successful vkCreatePipelineCache(..., &m_pipeline_cache): the handle is
\* overwritten, an object it referred to stays alive without a handle
VkCreatePipelineCache(S, obj) ==
  [S EXCEPT !.pcache = obj,
            !.caches = (@ \cup {"held"})
                       \cup (IF S.pcache # VK_NULL_HANDLE THEN {"orphaned"} ELSE {})]

\* ShaderCache::CreatePipelineCache(load_from_disk); res1 and res2 say whether the
\* first and the second vkCreatePipelineCache succeed
CreatePipelineCache(S0, load_from_disk, res1, res2) ==
  LET S == Log(S0, "CreatePipelineCache")
      name == GetDiskShaderCacheFileName(S.env.game, "pipeline", TRUE)
      \* the local LinearDiskCache creates the file when it is missing
      S1 == IF load_from_disk THEN [S EXCEPT !.pname = name, !.files[name] = File(Records(@))]
            ELSE [S EXCEPT !.pname = name]
      rd == ReadPipelineFile(Records(S1.files[name]))
      disk_data == IF load_from_disk THEN LoadedData(rd) ELSE << >>
      valid == disk_data = << >> \/ ValidatePipelineCache(S.env.device, disk_data)
      S2 == IF disk_data # << >> /\ ~valid THEN DeleteInvalid(S1, name) ELSE S1
      seeds == CreateSeeds(SeedFor(disk_data, valid), res1)
      results == IF res1 THEN << res1 >> ELSE << res1, res2 >>
      ret == results[Len(results)]
      obj == PipelineCacheObject(S.env.device, seeds[Len(seeds)])
  IN [st |-> IF ret THEN VkCreatePipelineCache(S2, obj) ELSE S2, ret |-> ret,
      log |-> [count |-> IF load_from_disk THEN rd.count ELSE 0, disk_data |-> disk_data,
               seeds |-> seeds, results |-> results, ret |-> ret]]

\* vkDestroyPipelineCache(device, m_pipeline_cache, nullptr); a null handle is
\* ignored by the runtime
VkDestroyPipelineCache(S) ==
  IF S.pcache = VK_NULL_HANDLE THEN S ELSE [S EXCEPT !.caches = @ \ {"held"}]

\* ShaderCache::DestroyPipelineCache
DestroyPipelineCache(S) ==
  [VkDestroyPipelineCache(ClearPipelineCache(Log(S, "DestroyPipelineCache")))
     EXCEPT !.pcache = VK_NULL_HANDLE]

\* a save that names the file after the game that is running now
SaveFileNameOfRunningGame(S) == GetDiskShaderCacheFileName(S.env.game, "pipeline", TRUE)

\* the file SavePipelineCache deletes and writes: m_pipeline_cache_filename
SaveFileName(S) == S.pname

\* a save that opens the file as it is
SaveDeleteKeepsFile(f) == f

\* "File::Delete(m_pipeline_cache_filename)" ahead of the write
SaveDelete(f) == NoFile

\* a save that deletes the old file before it reads the cache back
SavePipelineCacheDeletesFirst(S0, res1, res2) ==
  LET S == Log(S0, "SavePipelineCache")
      name == SaveFileName(S)
      S1 == [S EXCEPT !.files[name] = SaveDelete(@)]
  IN IF ~res1 \/ ~res2 THEN S1
     ELSE [S1 EXCEPT !.files[name] = File(<< [key |-> 1, value |-> S.pcache.data] >>)]

\* ShaderCache::SavePipelineCache; res1 and res2 say whether the size query and
\* the data query of vkGetPipelineCacheData succeed. After both, the file is
\* deleted, opened anew by a local LinearDiskCache whose reader ignores what it
\* reads, and the data appended under the key 1
SavePipelineCache(S0, res1, res2) ==
  LET S == Log(S0, "SavePipelineCache") IN
  IF ~res1 \/ ~res2 THEN S
  ELSE LET data == S.pcache.data
           name == SaveFileName(S)
           S1 == [S EXCEPT !.files[name] = SaveDelete(@)]
           S2 == [S1 EXCEPT !.files[name] = File(Records(@))]
       IN [S2 EXCEPT !.files[name] = File(Append(Records(@), [key |-> 1, value |-> data]))]

\* ------------------------------------------------------------------------
\* Shared shaders
\* ------------------------------------------------------------------------
SharedNames == {"screen_quad_vs", "passthrough_vs", "screen_quad_gs", "passthrough_gs"}
SharedModule(name, ok) == IF ok THEN [shared |-> name] ELSE VK_NULL_HANDLE

\* ShaderCache::CompileSharedShaders; ok says which compiles succeed
CompileSharedShaders(S0, cfg, ok) ==
  LET S == Log(S0, "CompileSharedShaders")
      Compiled(T, name) ==
        [Created(T, SharedModule(name, ok[name])) EXCEPT !.shared[name] = SharedModule(name, ok[name])]
      S1 == Compiled(Compiled(S, "screen_quad_vs"), "passthrough_vs")
      S2 == Compiled(Compiled(S1, "screen_quad_gs"), "passthrough_gs")
  IN IF ~ok["screen_quad_vs"] \/ ~ok["passthrough_vs"] THEN [st |-> S1, ret |-> FALSE]
     ELSE IF cfg.stereo /\ S.env.supports_gs
          THEN [st |-> S2, ret |-> ok["screen_quad_gs"] /\ ok["passthrough_gs"]]
          ELSE [st |-> S1, ret |-> TRUE]

\* ShaderCache::DestroySharedShaders: DestroyShader on each of the four handles
DestroySharedShaders(S0) ==
  LET DestroyShader(T, name) ==
        IF T.shared[name] # VK_NULL_HANDLE
        THEN [VkDestroy(T, T.shared[name]) EXCEPT !.shared[name] = VK_NULL_HANDLE]
        ELSE T
  IN DestroyShader(DestroyShader(DestroyShader(DestroyShader(
       Log(S0, "DestroySharedShaders"),
       "screen_quad_vs"), "passthrough_vs"), "screen_quad_gs"), "passthrough_gs")

\* ShaderCache::RecompileSharedShaders; a failure raises a PanicAlert and the
\* call returns
RecompileSharedShaders(S, cfg, ok) == CompileSharedShaders(DestroySharedShaders(S), cfg, ok).st


\* ------------------------------------------------------------------------
\* The post-processing shader (VulkanPostProcessingShader, VulkanPostProcessor)
\* ------------------------------------------------------------------------
\* g_command_buffer_mgr->WaitForGPUIdle(): returns when the submitted work is done
WaitForGPUIdle(S) == [Log(S, "WaitForGPUIdle") EXCEPT !.in_flight = {}]

\* the fragment shader module of pass i
FragmentShader(i) == [post |-> "fragment", pass |-> i]

\* VulkanPostProcessingShader::ReleasePassNativeResources on pass i
ReleasePassNativeResources(S, i) ==
  IF ~S.passes[i].shader THEN S
  ELSE IF S.passes[i].m_fragment_shader # VK_NULL_HANDLE
       THEN [VkDestroy(ClearPipelineCache(WaitForGPUIdle(S)), S.passes[i].m_fragment_shader)
               EXCEPT !.passes[i] = NoPass]
       ELSE [S EXCEPT !.passes[i] = NoPass]

\* a recompile that goes on to the next pass after a compile failed
RecompileStopsNever(failed) == FALSE

\* "if (pixel_shader->m_fragment_shader == VK_NULL_HANDLE) { ...; return false; }"
RecompileStops(failed) == failed

RECURSIVE RecompileFrom(_, _, _)
\* the loop of RecompileShaders from pass i on; ok says which passes
\* CompileAndCreateFragmentShader succeeds for
RecompileFrom(S, i, ok) ==
  IF i > Len(S.passes) THEN [st |-> S, ret |-> TRUE]
  ELSE LET S1 == Log(ReleasePassNativeResources(S, i), "CompileAndCreateFragmentShader")
           module == IF ok[i] THEN FragmentShader(i) ELSE VK_NULL_HANDLE
           S2 == [Created(S1, module)
                    EXCEPT !.passes[i] = [shader |-> TRUE, m_fragment_shader |-> module]]
       IN IF RecompileStops(module = VK_NULL_HANDLE)
          THEN [st |-> [ReleasePassNativeResources(S2, i) EXCEPT !.ready = FALSE],
                ret |-> FALSE]
          ELSE RecompileFrom(S2, i + 1, ok)

\* VulkanPostProcessingShader::RecompileShaders
RecompileShaders(S, ok) == RecompileFrom(S, 1, ok)

RECURSIVE ReleasePasses(_, _)
\* "for (RenderPassData& pass : m_passes) ReleasePassNativeResources(pass)"
ReleasePasses(S, i) ==
  IF i > Len(S.passes) THEN S ELSE ReleasePasses(ReleasePassNativeResources(S, i), i + 1)

\* VulkanPostProcessor::~VulkanPostProcessor as far as it touches the cache
DestroyPostProcessor(S) == ClearPipelineCache(WaitForGPUIdle(S))

\* ------------------------------------------------------------------------
\* Reload and teardown
\* ------------------------------------------------------------------------
\* a Reload that discards the shader stores before it clears the pipelines
ReloadReplayDiscardsFirst(S, save) ==
  LoadReplay(ClearPipelineCache(DestroyShaderCaches(SavePipelineCache(S, save[1], save[2]))))

\* ShaderCache::Reload up to the replay inside LoadShaderCaches(true)
ReloadReplay(S, save) ==
  LoadReplay(DestroyShaderCaches(ClearPipelineCache(SavePipelineCache(S, save[1], save[2]))))

\* ShaderCache::Shutdown: an empty body
Shutdown(S) == S

\* ShaderCache::~ShaderCache
Destroy(S) == DestroySharedShaders(DestroyShaderCaches(DestroyPipelineCache(S)))

\* ------------------------------------------------------------------------
\* Actions
\* ------------------------------------------------------------------------
RECURSIVE CallsUpTo(_, _)
\* compiler invocations for the uids 1..n of a stage
CallsUpTo(row, n) == IF n = 0 THEN 0 ELSE row[n] + CallsUpTo(row, n - 1)

\* compiler invocations so far
TotalCalls(S) ==
  CallsUpTo(S.calls["vs"], NumUids) + CallsUpTo(S.calls["ps"], NumUids)
  + CallsUpTo(S.calls["gs"], NumUids) + CallsUpTo(S.calls["vus"], NumUids)
  + CallsUpTo(S.calls["pus"], NumUids)

\* the model follows a call that compiles n more keys while the bound allows it
WithinBound(S, n) == TotalCalls(S) + n <= MaxCompiles

\* the results of the two vkCreatePipelineCache / vkGetPipelineCacheData calls of a
\* handler; the second one is not made when the first one decides
CreateResults == {<< TRUE, TRUE >>, << FALSE, TRUE >>, << FALSE, FALSE >>}
SaveResults == {<< TRUE, TRUE >>, << TRUE, FALSE >>, << FALSE, FALSE >>}

\* which shared shader compiles succeed: all, or all but one
SharedOutcomes ==
  {[n \in SharedNames |-> n # bad] : bad \in SharedNames \cup {"none"}}

\* the configurations a Reload tells apart: stereo is read by CompileSharedShaders
\* alone, and bCompileShaderOnStartup decides nothing once forcecompile is true
LoadConfigs == {c \in Configs : ~c.stereo /\ ~c.startup}

NoCall == [op |-> "none"]

\* ShaderCache::Initialize: LoadShaderCaches(), CreatePipelineCache(true),
\* CompileSharedShaders(); cfgs are the configurations the call may find, creates
\* and shareds the results the device may give to the pipeline cache creation and
\* to the shared shader compiles
InitializeWith(cfgs, creates, shareds) ==
  /\ pc = "constructed"
  /\ LET S1 == LoadReplay(Cur) IN
     \E cfg \in cfgs :
       /\ WithinBound(S1, Cardinality(LoadTargets(S1, cfg, FALSE)))
       /\ \E oracle \in [LoadTargets(S1, cfg, FALSE) -> CompileOutcomes] :
            LET S2 == LoadCompile(S1, cfg, FALSE, oracle) IN
            \E res \in creates, ok \in shareds :
              LET C == CreatePipelineCache(S2, TRUE, res[1], res[2])
                  H == CompileSharedShaders(C.st, cfg, ok)
              IN /\ IF ~C.ret
                    THEN Install(C.st) /\ pc' = "failed"
                    ELSE Install(H.st) /\ pc' = IF H.ret THEN "running" ELSE "failed"
                 /\ last' = [op |-> "Initialize", create |-> C.log,
                             startup |-> cfg.startup,
                             disable_specialized |-> cfg.disable_specialized]
  /\ UNCHANGED probe

Initialize == InitializeWith(Configs, CreateResults, SharedOutcomes)

\* Initialize on a device that creates the pipeline cache and compiles the shared
\* shaders without failure
InitializeOnHealthyDevice ==
  InitializeWith(Configs, {<< TRUE, TRUE >>}, {[n \in SharedNames |-> TRUE]})

\* Initialize on such a device under a configuration that asks for no precompile
\* pass
InitializeWithoutPrecompile ==
  InitializeWith({c \in Configs : ~c.uber /\ ~c.startup /\ ~c.stereo /\ ~c.disable_specialized},
                 {<< TRUE, TRUE >>}, {[n \in SharedNames |-> TRUE]})

\* a lookup of uid in a stage, shared by the five Get*ShaderForUid actions
Lookup(stage, uid) ==
  /\ pc = "running"
  /\ TestAndSet(Item(Cur, stage, uid)) \/ WithinBound(Cur, 1)
  /\ \E out \in (IF TestAndSet(Item(Cur, stage, uid)) THEN {NoSpv} ELSE CompileOutcomes) :
       LET R == GetShaderForUid(Cur, stage, uid, out)
       IN /\ Install(R.st)
          /\ last' = [op |-> "Get", stage |-> stage, uid |-> uid, ret |-> R.ret,
                      hit |-> R.hit]
  /\ UNCHANGED << pc, probe >>

GetVertexShaderForUid == \E uid \in Uids : Lookup("vs", uid)

GetPixelShaderForUid == \E uid \in Uids : Lookup("ps", uid)

\* ASSERT(g_vulkan_context->SupportsGeometryShaders())
GetGeometryShaderForUid == env.supports_gs /\ \E uid \in Uids : Lookup("gs", uid)

GetVertexUberShaderForUid == \E uid \in Uids : Lookup("vus", uid)

GetPixelUberShaderForUid == \E uid \in Uids : Lookup("pus", uid)

\* a call of ShaderCache::CompileShaders
CompileShadersCall ==
  /\ pc = "running"
  /\ WithinBound(Cur, Cardinality(Targets(Cur, SpecializedStages(Cur))))
  /\ \E oracle \in [Targets(Cur, SpecializedStages(Cur)) -> CompileOutcomes] :
       Install(CompileShaders(Cur, oracle))
  /\ last' = [op |-> "CompileShaders",
              compiled |-> Cardinality(Targets(Cur, SpecializedStages(Cur)))]
  /\ UNCHANGED << pc, probe >>

\* a call of ShaderCache::CompileUberShaders
CompileUberShadersCall ==
  /\ pc = "running"
  /\ WithinBound(Cur, Cardinality(Targets(Cur, UberStages)))
  /\ \E oracle \in [Targets(Cur, UberStages) -> CompileOutcomes] :
       Install(CompileUberShaders(Cur, oracle))
  /\ last' = [op |-> "CompileUberShaders", compiled |-> Cardinality(Targets(Cur, UberStages))]
  /\ UNCHANGED << pc, probe >>

\* a call of ShaderCache::SavePipelineCache
SavePipelineCacheCall ==
  /\ pc = "running"
  /\ \E save \in SaveResults :
       /\ Install(SavePipelineCache(Cur, save[1], save[2]))
       /\ last' = [op |-> "SavePipelineCache", ok |-> save[1] /\ save[2],
                   had |-> Len(Records(files[m_pipeline_cache_filename]))]
  /\ UNCHANGED << pc, probe >>

\* a call of ShaderCache::Reload: SavePipelineCache, ClearPipelineCache,
\* DestroyShaderCaches, LoadShaderCaches(true), CreatePipelineCache(true); saves
\* and creates are the results the device may give to the queries of the save and
\* to the pipeline cache creation, cfgs the configurations the call may find
ReloadWith(saves, cfgs, creates) ==
  /\ pc = "running"
  /\ \E save \in saves :
       LET S1 == ReloadReplay(Cur, save) IN
       \E cfg \in cfgs :
         /\ WithinBound(S1, Cardinality(LoadTargets(S1, cfg, TRUE)))
         /\ \E oracle \in [LoadTargets(S1, cfg, TRUE) -> CompileOutcomes] :
              LET S2 == LoadCompile(S1, cfg, TRUE, oracle) IN
              \E res \in creates :
                LET C == CreatePipelineCache(S2, TRUE, res[1], res[2])
                IN /\ Install(C.st)
                   /\ last' = [op |-> "Reload", saved |-> save[1] /\ save[2],
                               specialized |-> RunsCompileShaders(cfg, TRUE),
                               create |-> C.log, startup |-> cfg.startup,
                               disable_specialized |-> cfg.disable_specialized]
  /\ UNCHANGED << pc, probe >>

ReloadCall == ReloadWith(SaveResults, LoadConfigs, CreateResults)

\* a Reload on a device that answers every query and creates the pipeline cache,
\* under a configuration that asks for the specialized shaders alone
ReloadOnHealthyDevice ==
  ReloadWith({<< TRUE, TRUE >>}, {c \in LoadConfigs : ~c.uber /\ ~c.disable_specialized},
             {<< TRUE, TRUE >>})

\* the emulator core changes or clears the id of the running game while the
\* ShaderCache lives
SetGameID ==
  /\ pc = "running"
  /\ \E game \in (GameIDs \cup LaterGameIDs) \ {env.game} :
       Install([Cur EXCEPT !.env.game = game])
  /\ last' = [op |-> "SetGameID"]
  /\ UNCHANGED << pc, probe >>

\* a call of ShaderCache::Shutdown
ShutdownCall ==
  /\ pc = "running"
  /\ Install(Shutdown(Cur))
  /\ last' = [op |-> "Shutdown"]
  /\ UNCHANGED << pc, probe >>

\* destruction of the ShaderCache
Destructor ==
  /\ pc \in {"running", "failed"}
  /\ Install(Destroy(Cur))
  /\ pc' = "destroyed"
  /\ last' = [op |-> "~ShaderCache"]
  /\ UNCHANGED probe

\* destruction of a ShaderCache on which Initialize was never called; the
\* dereference of the null maps may end the process or go unnoticed
DestructorBeforeInitialize ==
  /\ pc = "constructed"
  /\ Install(Destroy(Cur))
  /\ pc' \in {"destroyed", "crashed"}
  /\ last' = [op |-> "~ShaderCache"]
  /\ UNCHANGED probe

\* the model follows a lookup that adds an entry while the maps hold fewer than
\* MaxPipelines entries
RoomFor(info) ==
  \/ info \in DOMAIN m_pipeline_objects \cup DOMAIN m_compute_pipeline_objects
  \/ Cardinality(DOMAIN m_pipeline_objects) + Cardinality(DOMAIN m_compute_pipeline_objects)
       < MaxPipelines

\* whether a creation succeeds matters only when the key is absent
CreateOutcomes(info) ==
  IF info \in DOMAIN m_pipeline_objects \cup DOMAIN m_compute_pipeline_objects
  THEN {TRUE} ELSE BOOLEAN

\* a call of ShaderCache::GetPipeline
GetPipelineCall ==
  /\ pc = "running"
  /\ \E info \in GraphicsInfos(Cur) :
       /\ RoomFor(info)
       /\ \E ok \in CreateOutcomes(info) :
            LET R == GetPipeline(Cur, info, ok)
            IN Install(R.st) /\ last' = [op |-> "GetPipeline", info |-> info, ret |-> R.ret]
  /\ UNCHANGED << pc, probe >>

\* a call of ShaderCache::GetPipelineWithCacheResult
GetPipelineWithCacheResultCall ==
  /\ pc = "running"
  /\ \E info \in GraphicsInfos(Cur) :
       /\ RoomFor(info)
       /\ \E ok \in CreateOutcomes(info) :
            LET R == GetPipelineWithCacheResult(Cur, info, ok)
            IN /\ Install(R.st)
               /\ last' = [op |-> "GetPipelineWithCacheResult", info |-> info, ret |-> R.ret]
  /\ UNCHANGED << pc, probe >>

\* a call of ShaderCache::GetComputePipeline
GetComputePipelineCall ==
  /\ pc = "running"
  /\ \E info \in ComputeInfos :
       /\ RoomFor(info)
       /\ \E ok \in CreateOutcomes(info) :
            LET R == GetComputePipeline(Cur, info, ok)
            IN /\ Install(R.st)
               /\ last' = [op |-> "GetComputePipeline", info |-> info, ret |-> R.ret]
  /\ UNCHANGED << pc, probe >>

\* the shared shader compiles of a recompile: all succeed, or the passthrough
\* vertex shader fails
RecompileOutcomes == {ok \in SharedOutcomes : \A n \in SharedNames \ {"passthrough_vs"} : ok[n]}

\* a call of ShaderCache::RecompileSharedShaders
RecompileSharedShadersCall ==
  /\ pc = "running"
  /\ \E cfg \in LoadConfigs, ok \in RecompileOutcomes :
       Install(RecompileSharedShaders(Cur, cfg, ok))
  /\ last' = [op |-> "RecompileSharedShaders"]
  /\ UNCHANGED << pc, probe >>

\* the handles of a set that the maps of the cache own: pipelines and the
\* modules of shader variants, not the shared and post-processing shaders
CacheOwned(handles) ==
  handles \ ({SharedModule(n, TRUE) : n \in SharedNames}
             \cup {FragmentShader(i) : i \in 1..MaxPasses})

\* the pipelines the maps hold
CachedPipelines ==
  ({m_pipeline_objects[k].first : k \in DOMAIN m_pipeline_objects}
   \cup {m_compute_pipeline_objects[k] : k \in DOMAIN m_compute_pipeline_objects})
  \ {VK_NULL_HANDLE}

\* the renderer submits a command buffer that draws with a cached pipeline
SubmitCommandBuffer ==
  /\ pc = "running"
  /\ in_flight = {}
  /\ \E pipeline \in CachedPipelines :
       Install([Cur EXCEPT !.in_flight = @ \cup {pipeline}])
  /\ last' = NoCall
  /\ UNCHANGED << pc, probe >>

\* the GPU finishes the submitted work, or a caller waits for it with
\* g_command_buffer_mgr->WaitForGPUIdle()
WaitForGPUIdleCall ==
  /\ in_flight # {}
  /\ Install(WaitForGPUIdle(Cur))
  /\ last' = NoCall
  /\ UNCHANGED << pc, probe >>

\* a call of VulkanPostProcessingShader::RecompileShaders
RecompileShadersCall ==
  /\ pc = "running"
  /\ \E ok \in [DOMAIN m_passes -> BOOLEAN] :
       LET R == RecompileShaders(Cur, ok)
       IN Install(R.st) /\ last' = [op |-> "RecompileShaders", ok |-> ok, ret |-> R.ret]
  /\ UNCHANGED << pc, probe >>

\* the owner of the shader marks it ready after a recompile that returned true
SetReady ==
  /\ pc = "running"
  /\ last.op = "RecompileShaders" /\ last.ret
  /\ ~m_ready
  /\ Install([Cur EXCEPT !.ready = TRUE])
  /\ last' = [op |-> "SetReady"]
  /\ UNCHANGED << pc, probe >>

\* destruction of the VulkanPostProcessingShader: every pass is released
PostProcessingShaderDestructor ==
  /\ pc = "running"
  /\ \E i \in DOMAIN m_passes : m_passes[i].shader
  /\ Install(ReleasePasses(Cur, 1))
  /\ last' = [op |-> "ReleasePassNativeResources"]
  /\ UNCHANGED << pc, probe >>

\* destruction of the VulkanPostProcessor
PostProcessorDestructor ==
  /\ pc = "running"
  /\ Install(DestroyPostProcessor(Cur))
  /\ last' = [op |-> "~VulkanPostProcessor",
              entries |-> Cardinality(DOMAIN m_pipeline_objects)
                          + Cardinality(DOMAIN m_compute_pipeline_objects),
              owned |-> Cardinality(CacheOwned(live))]
  /\ UNCHANGED << pc, probe >>

\* the stages the concurrent lookups go to: one ObjectUsageProfiler (GetOrAdd) and
\* one unordered_map (operator[])
ThreadStages == {"vs", "vus"}

\* Get*ShaderForUid as the steps of a calling thread. First step:
\* "vkShaderItem& it = shader_map->GetOrAdd(uid)" / "shader_map[uid]"
LookupGetOrAdd ==
  /\ pc = "running"
  /\ \E t \in Threads, stage \in ThreadStages, uid \in Uids :
       /\ threads[t].at \in {"idle", "done"}
       /\ Install([GetOrAdd(Cur, stage, uid) EXCEPT
                     !.threads[t] = [at |-> "test_and_set", stage |-> stage, uid |-> uid]])
  /\ last' = NoCall
  /\ UNCHANGED << pc, probe >>

\* second step: "if (it.initialized.test_and_set())", one atomic read-modify-write
\* of the flag; the thread goes on to "return it.module" when the flag was set and
\* to Compile*ShaderForUid when it was clear
LookupTestAndSet ==
  /\ \E t \in Threads :
       /\ threads[t].at = "test_and_set"
       /\ LET stage == threads[t].stage
              uid == threads[t].uid
              was == TestAndSet(Cur.map[stage][uid])
          IN Install([Cur EXCEPT
                        !.map[stage][uid].initialized = TRUE,
                        !.threads[t] = [at |-> IF was THEN "return" ELSE "compile",
                                        stage |-> stage, uid |-> uid, hit |-> was]])
  /\ last' = NoCall
  /\ UNCHANGED << pc, probe >>

\* the call of Compile*ShaderForUid(uid, it) by the thread that found the flag
\* clear, from the start of the compile to the stores into it.compiled and it.module
LookupCompile ==
  /\ \E t \in Threads, out \in CompileOutcomes :
       /\ threads[t].at = "compile"
       /\ WithinBound(Cur, 1)
       /\ Install([CompileShaderForUid(Cur, threads[t].stage, threads[t].uid, out) EXCEPT
                     !.threads[t].at = "return"])
  /\ last' = NoCall
  /\ UNCHANGED << pc, probe >>

\* last step: "return it.module", the handle the entry holds at the time of the read
LookupReturn ==
  /\ \E t \in Threads :
       /\ threads[t].at = "return"
       /\ Install([Cur EXCEPT
                     !.threads[t] = [at |-> "done", stage |-> threads[t].stage,
                                     uid |-> threads[t].uid, hit |-> threads[t].hit,
                                     ret |-> LookupResult(Cur, threads[t].stage,
                                                          threads[t].uid)]])
  /\ last' = NoCall
  /\ UNCHANGED << pc, probe >>

\* a call of ShaderCache::ValidatePipelineCache on the probe blob
ValidatePipelineCacheCall ==
  /\ pc = "validate"
  /\ pc' = "validated"
  /\ last' = [op |-> "ValidatePipelineCache", ret |-> ValidatePipelineCache(env.device, probe)]
  /\ UNCHANGED << env, shader_map, disk_cache, files, usage, usage_map, m_pipeline_cache,
                  m_pipeline_cache_filename, m_pipeline_objects,
                  m_compute_pipeline_objects, m_passes, m_ready, in_flight, shared,
                  compile_calls, outcome, probe, live, live_caches, created, faults,
                  trace, threads, reports >>

\* the renderer puts another depth state into the pipeline key it is building
SetDepthState ==
  /\ pc \in {"translate", "translated"}
  /\ pc' = "translate"
  /\ probe' \in DepthStates \ {probe}
  /\ UNCHANGED << env, shader_map, disk_cache, files, usage, usage_map, m_pipeline_cache,
                  m_pipeline_cache_filename, m_pipeline_objects,
                  m_compute_pipeline_objects, m_passes, m_ready, in_flight, shared,
                  compile_calls, outcome, live, live_caches, created, faults,
                  trace, threads, reports, last >>

\* a call of GetVulkanDepthStencilState on the depth state of the key
GetVulkanDepthStencilStateCall ==
  /\ pc = "translate"
  /\ pc' = "translated"
  /\ last' = [op |-> "GetVulkanDepthStencilState", state |-> probe,
              ret |-> GetVulkanDepthStencilState(probe)]
  /\ UNCHANGED << env, shader_map, disk_cache, files, usage, usage_map, m_pipeline_cache,
                  m_pipeline_cache_filename, m_pipeline_objects,
                  m_compute_pipeline_objects, m_passes, m_ready, in_flight, shared,
                  compile_calls, outcome, probe, live, live_caches, created, faults,
                  trace, threads, reports >>

\* ------------------------------------------------------------------------
\* Initial states
\* ------------------------------------------------------------------------
\* sequences over S of length at most n
BoundedSeq(S, n) == UNION {[1..k -> S] : k \in 0..n}

LiveDevice == CHOOSE d \in Devices : d.pipelineCacheUUID = Uuid(171, 1)
OtherDevice == CHOOSE d \in Devices : d # LiveDevice
StoreRecords == [key : Uids, value : Payloads]
PipelineFileName(game) == GetDiskShaderCacheFileName(game, "pipeline", TRUE)

\* pipeline cache files an earlier run may have left: none, a blob of this
\* device, a blob of another device, a truncated blob, an empty record, two records
PipelineFiles ==
  { NoFile,
    File(<< [key |-> 1, value |-> DeviceBlob(LiveDevice, 7)] >>),
    File(<< [key |-> 1, value |-> DeviceBlob(OtherDevice, 7)] >>),
    File(<< [key |-> 1, value |-> SubSeq(DeviceBlob(LiveDevice, 7), 1, HeaderSize - 1)] >>),
    File(<< [key |-> 1, value |-> << >>] >>),
    File(<< [key |-> 1, value |-> DeviceBlob(LiveDevice, 7)],
            [key |-> 1, value |-> DeviceBlob(LiveDevice, 8)] >>) }

\* the pipeline cache file of a game: missing, or a blob of this device
GameFiles == {NoFile, File(<< [key |-> 1, value |-> DeviceBlob(LiveDevice, 7)] >>)}

\* the state after construction, over a file system fs and a usage profile, of a
\* process whose post-processing shader has the given number of passes
ConstructedWith(fs, profile, gs, game, passes) ==
  /\ pc = "constructed"
  /\ env = [device |-> LiveDevice, supports_gs |-> gs, game |-> game]
  /\ shader_map = [s \in Stages |-> EmptyMap]
  /\ disk_cache = [s \in Stages |-> Closed]
  /\ files = fs
  /\ usage = profile
  /\ usage_map = NoUsageMaps
  /\ m_pipeline_cache = VK_NULL_HANDLE
  /\ m_pipeline_cache_filename = << "", "" >>
  /\ m_pipeline_objects = NoPipelines
  /\ m_compute_pipeline_objects = NoPipelines
  /\ m_passes = [i \in 1..passes |-> NoPass]
  /\ m_ready = FALSE
  /\ in_flight = {}
  /\ live = {}
  /\ live_caches = {}
  /\ created = NoCreations
  /\ faults = {}
  /\ trace = << >>
  /\ threads = [t \in Threads |-> Idle]
  /\ reports = << >>
  /\ shared = NoShared
  /\ compile_calls = [s \in Stages |-> [u \in Uids |-> 0]]
  /\ outcome = [s \in Stages |-> [u \in Uids |-> << >>]]
  /\ probe = << >>
  /\ last = NoCall

Constructed(fs, profile, gs, game) == ConstructedWith(fs, profile, gs, game, 1)

NoFiles == [n \in FileNames |-> NoFile]
NoUsage == [s \in UsageStages |-> {}]

\* a first run: no file exists yet
Init == \E gs \in BOOLEAN, g \in GameIDs : Constructed(NoFiles, NoUsage, gs, g)

Next ==
  \/ Initialize
  \/ GetVertexShaderForUid
  \/ GetPixelShaderForUid
  \/ GetGeometryShaderForUid
  \/ GetVertexUberShaderForUid
  \/ GetPixelUberShaderForUid
  \/ CompileShadersCall
  \/ CompileUberShadersCall
  \/ SavePipelineCacheCall
  \/ ReloadCall
  \/ Destructor

Spec == Init /\ [][Next]_vars

\* a later run on a healthy device: one store file was left by earlier runs, with
\* any records
InitReplay ==
  \E gs \in BOOLEAN, g \in GameIDs, s \in Stages, recs \in BoundedSeq(StoreRecords, MaxFileLen) :
    Constructed([NoFiles EXCEPT ![StoreFileName(g, s)] = File(recs)], NoUsage, gs, g)

NextReplay ==
  \/ InitializeOnHealthyDevice
  \/ GetVertexShaderForUid
  \/ GetPixelShaderForUid
  \/ GetGeometryShaderForUid
  \/ GetVertexUberShaderForUid
  \/ GetPixelUberShaderForUid
  \/ Destructor

SpecReplay == InitReplay /\ [][NextReplay]_vars

\* a later run: the pipeline cache file was left by an earlier run
InitPipelineCache ==
  \E gs \in BOOLEAN, g \in GameIDs, f \in PipelineFiles :
    Constructed([NoFiles EXCEPT ![PipelineFileName(g)] = f], NoUsage, gs, g)

NextPipelineCache ==
  \/ Initialize
  \/ SavePipelineCacheCall
  \/ ReloadCall
  \/ ShutdownCall
  \/ Destructor

SpecPipelineCache == InitPipelineCache /\ [][NextPipelineCache]_vars

\* a run in which the id of the running game changes: pipeline cache files were
\* left by earlier runs of two games
InitGameID ==
  \E g \in GameIDs, f1 \in GameFiles, f2 \in GameFiles :
    Constructed([NoFiles EXCEPT ![PipelineFileName(g)] = f1,
                                ![PipelineFileName("GZLE01")] = f2], NoUsage, FALSE, g)

NextGameID ==
  \/ InitializeOnHealthyDevice
  \/ SetGameID
  \/ SavePipelineCacheCall
  \/ ReloadOnHealthyDevice
  \/ Destructor

SpecGameID == InitGameID /\ [][NextGameID]_vars

\* a later run that draws: the vertex shader store was left by earlier runs with
\* one record, or with two records under the same key; shader and pipeline
\* lookups, submissions, clears, Reload, shared and post-processing shader
\* recompiles, teardown
VertexStores ==
  { File(<< [key |-> 1, value |-> "spv"] >>),
    File(<< [key |-> 1, value |-> "old_spv"], [key |-> 1, value |-> "spv"] >>) }

InitPipelines ==
  \E g \in GameIDs, f \in VertexStores :
    Constructed([NoFiles EXCEPT ![StoreFileName(g, "vs")] = f], NoUsage, FALSE, g)

NextPipelines ==
  \/ InitializeWithoutPrecompile
  \/ GetVertexShaderForUid
  \/ GetPipelineCall
  \/ GetPipelineWithCacheResultCall
  \/ GetComputePipelineCall
  \/ ReloadOnHealthyDevice
  \/ RecompileSharedShadersCall
  \/ SubmitCommandBuffer
  \/ WaitForGPUIdleCall
  \/ RecompileShadersCall
  \/ PostProcessingShaderDestructor
  \/ PostProcessorDestructor
  \/ Destructor

SpecPipelines == InitPipelines /\ [][NextPipelines]_vars

\* a post-processing shader of one to MaxPasses passes: recompiles in which any
\* of the compiles may fail, pipelines made from its shaders, the owner marking it
\* ready, its destruction
InitPostProcessing ==
  \E g \in GameIDs, n \in 1..MaxPasses : ConstructedWith(NoFiles, NoUsage, FALSE, g, n)

NextPostProcessing ==
  \/ InitializeWithoutPrecompile
  \/ RecompileShadersCall
  \/ GetPipelineCall
  \/ SetReady
  \/ PostProcessingShaderDestructor

SpecPostProcessing == InitPostProcessing /\ [][NextPostProcessing]_vars

\* the life of a ShaderCache object from construction on, over the store files
\* earlier runs left: Initialize with any result, Reload, destruction at any time
NextLifecycle ==
  \/ Initialize
  \/ ReloadCall
  \/ DestructorBeforeInitialize
  \/ Destructor

SpecLifecycle == InitPipelines /\ [][NextLifecycle]_vars

\* a run whose lookups overlap: two threads go through Get*ShaderForUid step by
\* step, over a vertex shader store that is missing, holds one record, or holds
\* one record whose key carries a cached hash that is not the hash of its content
ThreadStores ==
  { NoFile,
    File(<< [key |-> 1, value |-> "spv"] >>),
    File(<< [key |-> NumUids + 1, value |-> "old_spv"] >>) }

InitConcurrent ==
  \E g \in GameIDs, f \in ThreadStores :
    Constructed([NoFiles EXCEPT ![StoreFileName(g, "vs")] = f], NoUsage, FALSE, g)

NextConcurrent ==
  \/ InitializeWithoutPrecompile
  \/ LookupGetOrAdd
  \/ LookupTestAndSet
  \/ LookupCompile
  \/ LookupReturn

SpecConcurrent == InitConcurrent /\ [][NextConcurrent]_vars

\* blobs handed to ValidatePipelineCache: every combination of the header fields
\* around the values of the known devices, cut at several lengths
ProbeBlobs ==
  { SubSeq(MakeBlob(hlen, version, d1.vendorID, d2.deviceID, uuid, << 7 >>), 1, n) :
      hlen \in {HeaderSize - 1, HeaderSize, HeaderSize + 8},
      version \in {0, VK_PIPELINE_CACHE_HEADER_VERSION_ONE, 2},
      d1 \in Devices, d2 \in Devices,
      uuid \in {d.pipelineCacheUUID : d \in Devices} \cup {Uuid(170, 1)},
      n \in {0, HeaderSize - 1, HeaderSize, HeaderSize + 1} }

\* a call of ValidatePipelineCache on any probe blob, on any device
InitValidate ==
  /\ pc = "validate"
  /\ \E d \in Devices : env = [device |-> d, supports_gs |-> TRUE, game |-> "GALE01"]
  /\ probe \in ProbeBlobs
  /\ shader_map = [s \in Stages |-> EmptyMap]
  /\ disk_cache = [s \in Stages |-> Closed]
  /\ files = NoFiles
  /\ usage = NoUsage
  /\ usage_map = NoUsageMaps
  /\ m_pipeline_cache = VK_NULL_HANDLE
  /\ m_pipeline_cache_filename = << "", "" >>
  /\ m_pipeline_objects = NoPipelines
  /\ m_compute_pipeline_objects = NoPipelines
  /\ m_passes = << NoPass >>
  /\ m_ready = FALSE
  /\ in_flight = {}
  /\ live = {}
  /\ live_caches = {}
  /\ created = NoCreations
  /\ faults = {}
  /\ trace = << >>
  /\ threads = [t \in Threads |-> Idle]
  /\ reports = << >>
  /\ shared = NoShared
  /\ compile_calls = [s \in Stages |-> [u \in Uids |-> 0]]
  /\ outcome = [s \in Stages |-> [u \in Uids |-> << >>]]
  /\ last = NoCall

NextValidate == ValidatePipelineCacheCall

SpecValidate == InitValidate /\ [][NextValidate]_vars

\* the pipeline key under construction holds any depth state
InitDepthState ==
  /\ pc = "translate"
  /\ env = [device |-> LiveDevice, supports_gs |-> TRUE, game |-> "GALE01"]
  /\ probe \in DepthStates
  /\ shader_map = [s \in Stages |-> EmptyMap]
  /\ disk_cache = [s \in Stages |-> Closed]
  /\ files = NoFiles
  /\ usage = NoUsage
  /\ usage_map = NoUsageMaps
  /\ m_pipeline_cache = VK_NULL_HANDLE
  /\ m_pipeline_cache_filename = << "", "" >>
  /\ m_pipeline_objects = NoPipelines
  /\ m_compute_pipeline_objects = NoPipelines
  /\ m_passes = << NoPass >>
  /\ m_ready = FALSE
  /\ in_flight = {}
  /\ live = {}
  /\ live_caches = {}
  /\ created = NoCreations
  /\ faults = {}
  /\ trace = << >>
  /\ threads = [t \in Threads |-> Idle]
  /\ reports = << >>
  /\ shared = NoShared
  /\ compile_calls = [s \in Stages |-> [u \in Uids |-> 0]]
  /\ outcome = [s \in Stages |-> [u \in Uids |-> << >>]]
  /\ last = NoCall

NextDepthState == SetDepthState \/ GetVulkanDepthStencilStateCall

SpecDepthState == InitDepthState /\ [][NextDepthState]_vars

\* ------------------------------------------------------------------------
\* Properties of the shader variant cache
\* ------------------------------------------------------------------------
\* a compile that left no module: the compiler gave no SPIR-V, or module creation
\* returned null
Failed(out) == out = NoSpv \/ CreateShaderModuleRejects(out)

Last(seq) == seq[Len(seq)]

\* every compile of the key since the stores were loaded failed, and there was one
AlwaysFailed(stage, uid) ==
  /\ outcome[stage][uid] # << >>
  /\ \A i \in 1..Len(outcome[stage][uid]) : Failed(outcome[stage][uid][i])

\* C1 as stated: over lookups, precompile passes and Reload calls of one process,
\* the compile routine is invoked at most once for each distinct shader key.
C1_OncePerProcess == \A s \in Stages, u \in Uids : compile_calls[s][u] <= 1

\* C1 amended: the compile routine is invoked at most once for each distinct
\* shader key between two teardowns of the shader caches (DestroyShaderCaches, as
\* run by Reload and by the destructor).
C1_OncePerLoad == \A s \in Stages, u \in Uids : Len(outcome[s][u]) <= 1

\* a key compiled twice by the process, once since the last Reload
C1_Witness ==
  \E s \in Stages, u \in Uids :
    /\ compile_calls[s][u] = 2
    /\ Len(outcome[s][u]) = 1
    /\ shader_map[s][u] # NoItem

\* C2: for a key whose compile fails, the first lookup invokes the compiler once
\* and returns null, and a later lookup with no teardown in between returns null
\* without a further compile: after any lookup of such a key there has been exactly
\* one compile of it since the load and the call returned the null handle.
C2_FailedCompileIsTerminal ==
  (last.op = "Get" /\ AlwaysFailed(last.stage, last.uid)) =>
     /\ Len(outcome[last.stage][last.uid]) = 1
     /\ last.ret = VK_NULL_HANDLE

\* a later lookup of a key whose one compile failed: it found the flag set
C2_Witness ==
  /\ last.op = "Get"
  /\ last.hit
  /\ AlwaysFailed(last.stage, last.uid)
  /\ compile_calls[last.stage][last.uid] = 1
  /\ last.ret = VK_NULL_HANDLE

\* C3 as stated: when the compile path for a key fails at any step, the entry ends
\* with attempted = true, compiled = false and a null handle.
C3_FailureLeavesUncompiled ==
  \A s \in Stages, u \in Uids :
    (outcome[s][u] # << >> /\ Failed(Last(outcome[s][u]))) =>
       /\ shader_map[s][u] # NoItem
       /\ shader_map[s][u].initialized
       /\ ~shader_map[s][u].compiled
       /\ shader_map[s][u].module = VK_NULL_HANDLE

\* C3 amended: when the compile path for a key fails at any step, the entry ends
\* with attempted = true, compiled = true and a null handle.
C3_FailureLeavesNullModule ==
  \A s \in Stages, u \in Uids :
    (outcome[s][u] # << >> /\ Failed(Last(outcome[s][u]))) =>
       /\ shader_map[s][u] # NoItem
       /\ shader_map[s][u].initialized
       /\ shader_map[s][u].compiled
       /\ shader_map[s][u].module = VK_NULL_HANDLE

\* a key the compiler rejected and a key whose module creation returned null
C3_Witness ==
  \E s1 \in Stages, s2 \in Stages, u \in Uids :
    /\ outcome[s1][u] = << NoSpv >>
    /\ outcome[s2][u] = << "rejected" >>
    /\ shader_map[s1][u].module = VK_NULL_HANDLE
    /\ shader_map[s2][u].module = VK_NULL_HANDLE

\* the records of the store file of a stage
StoreRecs(fs, stage) == Records(fs[StoreFileName(env.game, stage)])

\* C4: a record is appended to a stage's store if and only if a compile for that
\* key succeeded and module creation returned a non-null handle: in every step the
\* store of each stage keeps its records and grows by exactly one record (key,
\* binary) for each key of that stage compiled with success in the step, and by
\* nothing else.
C4_AppendIffCompiled ==
  [][\A s \in Stages :
       LET old == StoreRecs(files, s)
           new == StoreRecs(files', s)
           done == {u \in Uids : /\ compile_calls'[s][u] > compile_calls[s][u]
                                 /\ ~Failed(Last(outcome'[s][u]))}
       IN /\ Len(new) = Len(old) + Cardinality(done)
          /\ SubSeq(new, 1, Len(old)) = old
          /\ \A u \in done :
               \E i \in (Len(old) + 1)..Len(new) :
                 new[i] = [key |-> u, value |-> Last(outcome'[s][u])]
    ]_vars

\* one store took the record of a successful compile while the failed compile of
\* another stage left its store empty
C4_Witness ==
  \E s1 \in Stages, s2 \in Stages, u \in Uids :
    /\ outcome[s1][u] = << "spv" >>
    /\ StoreRecs(files, s1) = << [key |-> u, value |-> "spv"] >>
    /\ outcome[s2][u] # << >>
    /\ Failed(Last(outcome[s2][u]))
    /\ StoreRecs(files, s2) = << >>

\* C5: a lookup of a key that an earlier lookup (or pass, or replay) resolved, with
\* no teardown in between, returns the handle stored in the entry, null or not,
\* leaves that handle in place and invokes no compile.
C5_SecondLookupReturnsStored ==
  [][(last'.op = "Get" /\ Item(Cur, last'.stage, last'.uid).initialized) =>
        /\ last'.ret = shader_map[last'.stage][last'.uid].module
        /\ shader_map'[last'.stage][last'.uid].module = last'.ret
        /\ compile_calls' = compile_calls
    ]_vars

\* a second lookup that returned the module the first one compiled, with another
\* key looked up in between
C5_Witness ==
  /\ last.op = "Get"
  /\ last.hit
  /\ last.ret # VK_NULL_HANDLE
  /\ last.ret = shader_map[last.stage][last.uid].module
  /\ compile_calls[last.stage][last.uid] = 1
  /\ \E s \in Stages \ {last.stage} : compile_calls[s][last.uid] = 1

\* ------------------------------------------------------------------------
\* Properties of the persistent stores and their replay
\* ------------------------------------------------------------------------
\* the stores LoadShaderCaches opens
LoadedStages == IF env.supports_gs THEN Stages ELSE Stages \ {"gs"}

\* C6: a key compiled with success, and so appended, is after the stores were
\* closed and reopened by a Reload an entry that is attempted, compiled and holds a
\* non-null module built by the replay from the appended payload, without a further
\* compile; and a lookup of an entry the replay built returns that module and
\* compiles nothing.
C6_RoundTrip ==
  [][/\ last'.op = "Reload" =>
          \A s \in LoadedStages, u \in Uids :
            (outcome[s][u] # << >> /\ ~Failed(Last(outcome[s][u]))) =>
               /\ shader_map'[s][u] # NoItem
               /\ shader_map'[s][u].initialized
               /\ shader_map'[s][u].compiled
               /\ shader_map'[s][u].module # VK_NULL_HANDLE
               /\ shader_map'[s][u].module.rec > 0
               /\ shader_map'[s][u].module.spv = Last(outcome[s][u])
               /\ compile_calls'[s][u] = compile_calls[s][u]
     /\ (/\ last'.op = "Get"
         /\ shader_map[last'.stage][last'.uid] # NoItem
         /\ shader_map[last'.stage][last'.uid].module # VK_NULL_HANDLE
         /\ shader_map[last'.stage][last'.uid].module.rec > 0) =>
            /\ compile_calls' = compile_calls
            /\ last'.ret = shader_map[last'.stage][last'.uid].module
    ]_vars

\* a lookup after a Reload that returned the module the replay built from the
\* payload a compile of this process had appended
C6_Witness ==
  /\ last.op = "Get"
  /\ last.hit
  /\ last.ret # VK_NULL_HANDLE
  /\ last.ret.rec > 0
  /\ last.ret.spv = "spv"
  /\ compile_calls[last.stage][last.uid] = 1
  /\ outcome[last.stage][last.uid] = << >>

\* the indices of the records of a store file under key uid
RecordsOf(stage, uid) ==
  {i \in 1..Len(StoreRecs(files, stage)) : StoreRecs(files, stage)[i].key = uid}

\* the indices of the records under uid whose payload the device turns into a module
Instantiable(stage, uid) ==
  {i \in RecordsOf(stage, uid) : ~CreateShaderModuleRejects(StoreRecs(files, stage)[i].value)}

\* the stores were loaded and the key was not handed to the compiler since
OnlyReplayed(stage, uid) ==
  /\ pc \in {"running", "failed"}
  /\ stage \in LoadedStages
  /\ outcome[stage][uid] = << >>

\* C7: a replayed record whose payload cannot be turned into a module creates no
\* entry: a key with no instantiable record stays absent from the map, no entry
\* left by the replay is attempted with a null handle, and the first later lookup
\* of an absent key makes a fresh compile attempt.
C7_NullRecordsNotInserted ==
  /\ [](\A s \in Stages, u \in Uids :
          OnlyReplayed(s, u) =>
             /\ Instantiable(s, u) = {} => shader_map[s][u] = NoItem
             /\ shader_map[s][u] # NoItem => shader_map[s][u].module # VK_NULL_HANDLE)
  /\ [][(last'.op = "Get" /\ shader_map[last'.stage][last'.uid] = NoItem) =>
           /\ compile_calls'[last'.stage][last'.uid]
                = compile_calls[last'.stage][last'.uid] + 1
           /\ ~last'.hit
       ]_vars

\* the store held a record with the zero-length payload and no instantiable record
\* under the key, and the first lookup of the key went to the compiler
C7_Witness ==
  /\ last.op = "Get"
  /\ ~last.hit
  /\ compile_calls[last.stage][last.uid] = 1
  /\ Failed(Last(outcome[last.stage][last.uid]))
  /\ Instantiable(last.stage, last.uid) = {}
  /\ \E i \in RecordsOf(last.stage, last.uid) :
       StoreRecs(files, last.stage)[i].value = "empty"

\* the largest index of a non-empty set of indices
MaxIndex(set) == CHOOSE i \in set : \A j \in set : j <= i

\* C8: when a store file holds several records under one key, the entry the
\* replay leaves holds the module built from the last record under that key, in
\* file order, that could be instantiated.
C8_LastInstantiableWins ==
  \A s \in Stages, u \in Uids :
    (OnlyReplayed(s, u) /\ Instantiable(s, u) # {}) =>
       /\ shader_map[s][u] # NoItem
       /\ shader_map[s][u].initialized
       /\ shader_map[s][u].compiled
       /\ shader_map[s][u].module =
            Module(s, u, MaxIndex(Instantiable(s, u)),
                   StoreRecs(files, s)[MaxIndex(Instantiable(s, u))].value)

\* two instantiable records with different payloads under one key: the entry holds
\* the module of the second
C8_Witness ==
  \E s \in Stages, u \in Uids :
    /\ OnlyReplayed(s, u)
    /\ Instantiable(s, u) = {1, 2}
    /\ StoreRecs(files, s)[1].value # StoreRecs(files, s)[2].value
    /\ shader_map[s][u] # NoItem
    /\ shader_map[s][u].module.rec = 2

\* ------------------------------------------------------------------------
\* Properties of the pipeline cache blob
\* ------------------------------------------------------------------------
\* C9: ValidatePipelineCache returns true if and only if the blob is at least as
\* long as the header, header_length is at least the header size, header_version
\* is the one supported version, and vendor id, device id and UUID equal those of
\* the live device; so it returns false for a blob shorter than the header, for a
\* wrong vendor id and for a header that is right except for the UUID.
C9_ValidateIff ==
  pc = "validated" =>
    /\ last.ret <=>
         /\ Len(probe) >= HeaderSize
         /\ ReadU32(probe, 0) >= HeaderSize
         /\ ReadU32(probe, 4) = VK_PIPELINE_CACHE_HEADER_VERSION_ONE
         /\ ReadU32(probe, 8) = env.device.vendorID
         /\ ReadU32(probe, 12) = env.device.deviceID
         /\ \A i \in 1..VK_UUID_SIZE : probe[16 + i] = env.device.pipelineCacheUUID[i]
    /\ Len(probe) < HeaderSize => ~last.ret
    /\ (Len(probe) >= HeaderSize /\ ReadU32(probe, 8) # env.device.vendorID) => ~last.ret
    /\ (Len(probe) >= HeaderSize
          /\ SubSeq(probe, 17, HeaderSize) # env.device.pipelineCacheUUID) => ~last.ret

\* a blob of the live device, longer than its header, was accepted
C9_Witness ==
  /\ pc = "validated"
  /\ last.ret
  /\ Len(probe) > HeaderSize
  /\ ReadU32(probe, 0) > HeaderSize

\* the last call ran CreatePipelineCache on a blob from disk that failed validation
LoadedInvalidBlob ==
  /\ last.op \in {"Initialize", "Reload"}
  /\ last.create.disk_data # << >>
  /\ ~ValidatePipelineCache(env.device, last.create.disk_data)

\* C10: in CreatePipelineCache a blob loaded from disk that fails validation is
\* discarded whole: the backing file is deleted, every vkCreatePipelineCache call
\* gets the empty seed, and the call reports success whenever one of the creations
\* succeeds, leaving a cache that holds none of the blob.
C10_InvalidBlobDiscarded ==
  LoadedInvalidBlob =>
    /\ ~files[m_pipeline_cache_filename].exists
    /\ \A i \in 1..Len(last.create.seeds) : last.create.seeds[i] = << >>
    /\ last.create.ret <=> (\E i \in 1..Len(last.create.results) : last.create.results[i])
    /\ last.create.ret => m_pipeline_cache = PipelineCacheObject(env.device, << >>)
    /\ (last.op = "Initialize" /\ ~last.create.ret) => m_pipeline_cache = VK_NULL_HANDLE

\* Initialize found the blob of another device in the file, deleted the file and
\* created an empty pipeline cache
C10_Witness ==
  /\ LoadedInvalidBlob
  /\ last.op = "Initialize"
  /\ Len(last.create.disk_data) > HeaderSize
  /\ last.create.ret
  /\ pc = "running"
  /\ ~files[m_pipeline_cache_filename].exists

\* the log of the CreatePipelineCache call of the last Initialize or Reload
CreatedBy(l) == l.op \in {"Initialize", "Reload"}

\* C11: CreatePipelineCache hands the loaded seed to the first
\* vkCreatePipelineCache; when that fails it tries exactly once more, with an
\* empty seed; it makes no more than two attempts, returns true as soon as one
\* attempt succeeds (the live object being the one that attempt created), and
\* returns false only when the attempt with the empty seed failed too.
C11_SeedThenEmptyRetry ==
  CreatedBy(last) =>
    LET c == last.create
        n == Len(c.seeds)
    IN /\ n \in {1, 2} /\ Len(c.results) = n
       /\ c.seeds[1] \in {c.disk_data, << >>}
       /\ ValidatePipelineCache(env.device, c.disk_data) => c.seeds[1] = c.disk_data
       /\ n = 2 <=> ~c.results[1]
       /\ n = 2 => c.seeds[2] = << >>
       /\ c.ret <=> c.results[n]
       /\ ~c.ret => n = 2 /\ ~c.results[2]
       /\ c.ret => m_pipeline_cache = PipelineCacheObject(env.device, c.seeds[n])

\* the runtime refused a valid blob read from the file and accepted the empty seed
C11_Witness ==
  /\ CreatedBy(last)
  /\ Len(last.create.seeds) = 2
  /\ last.create.seeds[1] # << >>
  /\ last.create.ret
  /\ m_pipeline_cache = PipelineCacheObject(env.device, << >>)

\* C12: after a SavePipelineCache that succeeded, the backing file holds exactly
\* one record, whose value is the current contents of the live cache object;
\* nothing of what the file held before remains, however many saves came before.
C12_SaveLeavesOneRecord ==
  (last.op = "SavePipelineCache" /\ last.ok) =>
    /\ files[m_pipeline_cache_filename].exists
    /\ Records(files[m_pipeline_cache_filename])
         = << [key |-> 1, value |-> m_pipeline_cache.data] >>

\* a save over a file that held two records
C12_Witness ==
  /\ last.op = "SavePipelineCache" /\ last.ok
  /\ last.had = 2
  /\ Len(Records(files[m_pipeline_cache_filename])) = 1

\* C13: the write path and the read path of the pipeline cache file round-trip.
\* When the SavePipelineCache of a Reload succeeded, or a successful
\* SavePipelineCache call came right before a Reload, the CreatePipelineCache(true)
\* of that Reload reads back exactly one record and hands exactly the blob the
\* live cache held at the save to the first vkCreatePipelineCache.
C13_SaveThenCreateRoundTrip ==
  [][ (last'.op = "Reload"
       /\ (last'.saved \/ (last.op = "SavePipelineCache" /\ last.ok)))
      => /\ last'.create.count = 1
         /\ last'.create.disk_data = m_pipeline_cache.data
         /\ last'.create.seeds[1] = m_pipeline_cache.data ]_vars

\* a Reload whose save succeeded and whose create was seeded from the file
C13_Witness ==
  /\ last.op = "Reload" /\ last.saved
  /\ last.create.count = 1
  /\ last.create.seeds[1] # << >>
  /\ last.create.ret

\* ------------------------------------------------------------------------
\* Properties of the lifecycle of the device-bound cache
\* ------------------------------------------------------------------------
\* the position of the first call of a name in a trace, 0 when it has none
FirstCall(tr, name) ==
  IF \E i \in 1..Len(tr) : tr[i] = name
  THEN CHOOSE i \in 1..Len(tr) : tr[i] = name /\ \A j \in 1..(i - 1) : tr[j] # name
  ELSE 0

\* C14: over Initialize, Reload, SavePipelineCache and teardown the runtime
\* pipeline cache object is created only while none is live, so at most one such
\* object is live at any time, and none is live once the ShaderCache is gone.
C14_AtMostOneCacheObject ==
  /\ Cardinality(live_caches) <= 1
  /\ pc = "destroyed" => live_caches = {}

\* C15: when the teardown of the ShaderCache destroys the runtime cache object,
\* a SavePipelineCache of that object came before the destruction: in the
\* teardown itself, or as the last call ahead of it.
C15_SaveBeforeDestroyAtTeardown ==
  [][ (pc' = "destroyed" /\ m_pipeline_cache # VK_NULL_HANDLE)
      => \/ /\ FirstCall(trace', "SavePipelineCache") > 0
            /\ FirstCall(trace', "SavePipelineCache") < FirstCall(trace', "DestroyPipelineCache")
         \/ last.op = "SavePipelineCache" /\ last.ok ]_vars

\* the calls of a handler that the steps of Reload name
ReloadSteps(tr) == SelectSeq(tr, LAMBDA name : name \notin {"CompileUberShaders", "vkDestroy"})

Destroys(tr) == Len(SelectSeq(tr, LAMBDA name : name = "vkDestroy"))

Called(tr, name) == \E i \in 1..Len(tr) : tr[i] = name

PipelineLookups == {"GetPipeline", "GetPipelineWithCacheResult", "GetComputePipeline"}

\* C17: a call that runs ClearPipelineCache destroys every non-null pipeline
\* handle of the graphics and of the compute map, hands no null handle to
\* vkDestroyPipeline and leaves both maps empty; a clear called on its own makes
\* exactly one destroy call per non-null handle, and a lookup right after it
\* creates the pipeline anew.
C17_ClearDestroysEachOnce ==
  [][ /\ Called(trace', "ClearPipelineCache")
         => /\ CachedPipelines \cap live' = {}
            /\ m_pipeline_objects' = NoPipelines
            /\ m_compute_pipeline_objects' = NoPipelines
            /\ (faults' \ faults) \cap {"destroy_null", "double_destroy"} = {}
      /\ last'.op = "~VulkanPostProcessor"
         => /\ Destroys(trace') = Cardinality(CachedPipelines)
            /\ live' = live \ CachedPipelines
      /\ (last.op = "~VulkanPostProcessor" /\ last'.op \in PipelineLookups)
         => /\ Called(trace', "CreatePipeline") \/ Called(trace', "CreateComputePipeline")
            /\ created'[last'.info] = 1 ]_vars

\* a clear over two entries, one of them holding a null handle
C17_Witness ==
  /\ last.op = "~VulkanPostProcessor"
  /\ last.entries = 2
  /\ Destroys(trace) = 1
  /\ m_pipeline_objects = NoPipelines /\ m_compute_pipeline_objects = NoPipelines

\* the handles the maps and the shared shader members hold
HeldHandles ==
  (CachedPipelines
   \cup UNION {{shader_map[s][u].module : u \in {x \in StoredKeys : shader_map[s][x] # NoItem}} :
                s \in Stages}
   \cup {shared[n] : n \in SharedNames}) \ {VK_NULL_HANDLE}

\* C18: over lookups, full clears, Reloads, shared shader recompiles and the
\* teardown no handle is destroyed twice, no map holds a destroyed handle, and
\* a full clear followed by a Reload makes as many destroy calls as there were
\* live pipelines and shader modules of the cache before the clear.
C18_DestroyedOnceAndCounted ==
  /\ []("double_destroy" \notin faults /\ HeldHandles \subseteq live)
  /\ [][ (last.op = "~VulkanPostProcessor" /\ last'.op = "Reload")
          => Destroys(trace) + Destroys(trace') = last.owned ]_vars

\* C19: no pipeline is destroyed by a clear of the pipeline maps (called on its
\* own, from Reload, from the teardown or from the release of a post-processing
\* shader) while submitted GPU work that uses it has not completed.
C19_ClearOnlyWhenIdle == "destroy_in_flight" \notin faults

\* C20: between two clears the lookups call CreatePipeline /
\* CreateComputePipeline at most once for a key, return the handle the map holds
\* under the key, and leave every entry the maps held as it was.
C20_OneCreationPerKey ==
  /\ [](\A k \in DOMAIN created : created[k] <= 1)
  /\ [][ last'.op \in PipelineLookups
          => /\ \A k \in DOMAIN m_pipeline_objects :
                  k \in DOMAIN m_pipeline_objects' /\ m_pipeline_objects'[k] = m_pipeline_objects[k]
             /\ \A k \in DOMAIN m_compute_pipeline_objects :
                  /\ k \in DOMAIN m_compute_pipeline_objects'
                  /\ m_compute_pipeline_objects'[k] = m_compute_pipeline_objects[k]
             /\ last'.op = "GetPipeline" => last'.ret = m_pipeline_objects'[last'.info].first
             /\ last'.op = "GetPipelineWithCacheResult"
                  => last'.ret.first = m_pipeline_objects'[last'.info].first
             /\ last'.op = "GetComputePipeline"
                  => last'.ret = m_compute_pipeline_objects'[last'.info] ]_vars

\* a lookup that found the key and returned the pipeline created for it before
C20_Witness ==
  /\ last.op \in PipelineLookups
  /\ trace = << >>
  /\ created[last.info] = 1
  /\ last.ret # VK_NULL_HANDLE
  /\ Cardinality(DOMAIN created) = 2

\* the lookups of the graphics pipeline map, and the handle such a call returned
GraphicsLookups == {"GetPipeline", "GetPipelineWithCacheResult"}

Returned(l) == IF l.op = "GetPipelineWithCacheResult" THEN l.ret.first ELSE l.ret

\* two pipeline keys that differ in the state fields alone
StateOnlyDifference(k1, k2) == k1.vs = k2.vs /\ k1.ps = k2.ps /\ k1.blend # k2.blend

\* C21: a failed pipeline creation returns the null handle and is recorded under
\* the key of the lookup alone. A lookup of a key the map does not hold makes its
\* own creation attempt, whatever failed entries the map holds under other keys; a
\* lookup that fails adds the null entry under its key and changes no other entry;
\* a later lookup of a failed key returns null and makes no creation attempt.
C21_FailureUnderExactKey ==
  [][ last'.op \in GraphicsLookups
      => /\ last'.info \notin DOMAIN m_pipeline_objects
            => /\ Called(trace', "CreatePipeline")
               /\ created'[last'.info] = CreationsOf(Cur, last'.info) + 1
               /\ m_pipeline_objects'
                    = Emplace(m_pipeline_objects, last'.info, Entry(Returned(last')))
         /\ (last'.info \in DOMAIN m_pipeline_objects
             /\ m_pipeline_objects[last'.info].first = VK_NULL_HANDLE)
            => /\ Returned(last') = VK_NULL_HANDLE
               /\ trace' = << >>
               /\ created' = created
               /\ m_pipeline_objects' = m_pipeline_objects ]_vars

\* a lookup of a failed key answered with null from the map, while the key that
\* differs from it in the blend state alone holds a pipeline of its own
C21_Witness ==
  /\ last.op \in GraphicsLookups
  /\ trace = << >>
  /\ Returned(last) = VK_NULL_HANDLE
  /\ created[last.info] = 1
  /\ \E k \in DOMAIN m_pipeline_objects :
       /\ StateOnlyDifference(k, last.info)
       /\ m_pipeline_objects[k].first = Pipeline(k)

\* ------------------------------------------------------------------------
\* Properties of overlapping lookups
\* ------------------------------------------------------------------------
\* the threads inside Compile*ShaderForUid for a key
Compiling(stage, uid) ==
  {t \in Threads : /\ threads[t].at = "compile"
                   /\ threads[t].stage = stage
                   /\ threads[t].uid = uid}

\* the entries into the compile path for a key: the compiles done and those running
Entered(stage, uid) == compile_calls[stage][uid] + Cardinality(Compiling(stage, uid))

\* the entry under the key was built by the replay of the store
Replayed(stage, uid) ==
  /\ shader_map[stage][uid] # NoItem
  /\ shader_map[stage][uid].module # VK_NULL_HANDLE
  /\ shader_map[stage][uid].module.rec > 0

\* C22: for any interleaving of the lookups of two threads, at most one lookup
\* enters the compile path of a key, and exactly one once the flag of a fresh key
\* (one the replay did not resolve) is set: the thread whose test-and-set found
\* the flag clear goes on to compile, a thread that found it set goes on to the
\* return and never to the compile.
C22_OneThreadCompiles ==
  /\ [](\A s \in ThreadStages, u \in Uids :
          /\ Entered(s, u) <= 1
          /\ (shader_map[s][u] # NoItem /\ shader_map[s][u].initialized /\ ~Replayed(s, u))
               => Entered(s, u) = 1)
  /\ [][\A t \in Threads :
          (threads[t].at = "test_and_set" /\ threads'[t].at # "test_and_set")
            => LET was == Item(Cur, threads[t].stage, threads[t].uid).initialized
               IN /\ threads'[t].hit = was
                  /\ threads'[t].at = (IF was THEN "return" ELSE "compile")
                  /\ shader_map'[threads[t].stage][threads[t].uid].initialized
                  /\ compile_calls' = compile_calls ]_vars

\* a thread is still compiling a fresh key while the other thread, which looked
\* the same key up, found the flag set
C22_Witness ==
  \E t1 \in Threads, t2 \in Threads :
    /\ threads[t1].at = "compile"
    /\ threads[t2].at \in {"return", "done"}
    /\ threads[t2].hit
    /\ threads[t2].stage = threads[t1].stage
    /\ threads[t2].uid = threads[t1].uid
    /\ compile_calls[threads[t1].stage][threads[t1].uid] = 0

\* C23: a lookup that found the flag of its key set by an overlapping lookup
\* returns the handle the entry holds once the compile of that lookup has
\* finished: when no thread is compiling the key any more, the handle the lookup
\* returned is the handle stored under the key.
C23_OverlappingLookupSeesResult ==
  \A t \in Threads :
    (/\ threads[t].at = "done"
     /\ threads[t].hit
     /\ Compiling(threads[t].stage, threads[t].uid) = {})
      => threads[t].ret = shader_map[threads[t].stage][threads[t].uid].module

\* ------------------------------------------------------------------------
\* Properties of the precompile passes
\* ------------------------------------------------------------------------
BulkPasses == {"CompileShaders", "CompileUberShaders"}

\* a compiler that would produce a module for every key it is handed
AnyOracle == [k \in Stages \X Uids |-> "spv"]

\* C24: a bulk precompile pass invokes the compiler for no key whose entry was
\* resolved before the pass (by the replay, by a compile that succeeded or by one
\* that failed): a pass leaves the compile count and the outcome of every resolved
\* key as they were, and a second pass run right after a pass, with no lookup in
\* between, invokes no compile and leaves every store file as it is.
C24_PassSkipsResolved ==
  /\ [](last.op = "CompileShaders"
          => /\ CompileShaders(Cur, AnyOracle).calls = compile_calls
             /\ CompileShaders(Cur, AnyOracle).files = files)
  /\ [](last.op = "CompileUberShaders"
          => /\ CompileUberShaders(Cur, AnyOracle).calls = compile_calls
             /\ CompileUberShaders(Cur, AnyOracle).files = files)
  /\ [][ last'.op \in BulkPasses
          => \A s \in Stages, u \in Uids :
               Item(Cur, s, u).initialized
                 => /\ compile_calls'[s][u] = compile_calls[s][u]
                    /\ outcome'[s][u] = outcome[s][u]
                    /\ shader_map'[s][u] = shader_map[s][u] ]_vars

\* a pass over the uber shaders that found nothing to compile: one key was resolved
\* by the replay of a Reload, the other by a compile that failed
C24_Witness ==
  /\ last.op = "CompileUberShaders"
  /\ last.compiled = 0
  /\ \E s1 \in UberStages, s2 \in UberStages, u \in Uids :
       /\ Replayed(s1, u)
       /\ AlwaysFailed(s2, u)
       /\ shader_map[s2][u].module = VK_NULL_HANDLE

\* ------------------------------------------------------------------------
\* Properties of the keys of replayed records
\* ------------------------------------------------------------------------
\* C28: the entry the replay builds from a record lives in the map under the
\* canonicalized key of the record (cached hash cleared, hash computed from the
\* content anew), never under a key whose cached hash is the stale one read from
\* the file.
C28_ReplayedUnderCanonicalKey ==
  \A s \in Stages, k \in StoredKeys :
    (/\ shader_map[s][k] # NoItem
     /\ shader_map[s][k].module # VK_NULL_HANDLE
     /\ shader_map[s][k].module.rec > 0)
      => /\ k = Rehash(shader_map[s][k].module.uid)
         /\ k = Rehash(k)

\* ------------------------------------------------------------------------
\* Properties of the progress reports
\* ------------------------------------------------------------------------
\* the positions of the progress reports of the pass over a stage
ReportsOf(stage) == {i \in 1..Len(reports) : reports[i].label = PassLabel(stage)}

\* the report that clears the display
DoneReport == [label |-> "", current |-> -1, total |-> -1]

\* C25: in every call that runs bulk precompile passes, the progress reports of
\* each pass (vertex, pixel, geometry, vertex-uber, pixel-uber) carry a running
\* index that counts the keys processed, so it lies between 1 and the total and
\* increases from one report of the pass to the next, together with the one total
\* of the pass; and a report with the done state (current = -1, total = -1)
\* follows the last progress report of the pass.
C25_ProgressReports ==
  \A s \in Stages :
    /\ \A i \in ReportsOf(s) :
         /\ reports[i].current >= 1
         /\ reports[i].current <= reports[i].total
         /\ \E j \in (i + 1)..Len(reports) : reports[j] = DoneReport
    /\ \A i \in ReportsOf(s), j \in ReportsOf(s) :
         i < j => /\ reports[i].current < reports[j].current
                  /\ reports[i].total = reports[j].total

\* ------------------------------------------------------------------------
\* Properties of the name of the pipeline cache file
\* ------------------------------------------------------------------------
\* C26: the name CreatePipelineCache computes for the pipeline cache file does
\* not depend on the game: a CreatePipelineCache (of Initialize or Reload) that
\* runs after an earlier one computes the name the earlier one computed, whatever
\* the id of the running game is by then.
C26_NameIndependentOfGame ==
  [][ (CreatedBy(last') /\ m_pipeline_cache_filename # << "", "" >>)
      => m_pipeline_cache_filename' = m_pipeline_cache_filename ]_vars

\* C30: SavePipelineCache writes the file whose name the most recent
\* CreatePipelineCache stored, and no other file, also when the id of the running
\* game has changed or been cleared since; and the stored name changes in no step
\* but one that runs CreatePipelineCache.
C30_SaveUsesStoredName ==
  [][ /\ last'.op = "SavePipelineCache"
         => /\ \A n \in FileNames \ {m_pipeline_cache_filename} : files'[n] = files[n]
            /\ last'.ok => Records(files'[m_pipeline_cache_filename])
                              = << [key |-> 1, value |-> m_pipeline_cache.data] >>
      /\ (last'.op = "Reload" /\ last'.saved
          /\ m_pipeline_cache_filename' # m_pipeline_cache_filename)
         => Records(files'[m_pipeline_cache_filename])
              = << [key |-> 1, value |-> m_pipeline_cache.data] >>
      /\ m_pipeline_cache_filename' # m_pipeline_cache_filename
         => Called(trace', "CreatePipelineCache") ]_vars

\* a save after the id of the game was cleared: the file named after the game of
\* the last CreatePipelineCache holds the blob, no file is named after the cleared id
C30_Witness ==
  /\ last.op = "SavePipelineCache" /\ last.ok
  /\ env.game = ""
  /\ m_pipeline_cache_filename = PipelineFileName("GALE01")
  /\ Len(Records(files[m_pipeline_cache_filename])) = 1
  /\ ~files[PipelineFileName("")].exists

\* ------------------------------------------------------------------------
\* Properties of the lifecycle of the persistent stores
\* ------------------------------------------------------------------------
\* C27: every store LoadShaderCaches opens (vertex, pixel, geometry when
\* supported, vertex-uber, pixel-uber) is synced and closed by DestroyShaderCaches
\* on every path: from Initialize, whether it succeeds or fails, to the teardown
\* the loaded stores stay open and the others closed; a step that loads the stores
\* either found all of them closed or ran DestroyShaderCaches before the load; no
\* store is opened while it is open; and after the teardown no store is open.
C27_StoresClosedOnEveryPath ==
  /\ [](/\ "open_while_open" \notin faults
        /\ pc \in {"constructed", "destroyed"} => \A s \in Stages : ~disk_cache[s].open
        /\ pc \in {"running", "failed"}
             => \A s \in Stages : disk_cache[s].open <=> s \in LoadedStages)
  /\ [][ Called(trace', "LoadShaderCaches")
          => \/ \A s \in Stages : ~disk_cache[s].open
             \/ /\ Called(trace', "DestroyShaderCaches")
                /\ FirstCall(trace', "DestroyShaderCaches")
                     < FirstCall(trace', "LoadShaderCaches") ]_vars

\* a teardown over stores that were open and in use: it left every store closed
C27_Witness ==
  /\ pc = "destroyed"
  /\ last.op = "~ShaderCache"
  /\ Called(trace, "DestroyShaderCaches")
  /\ \A s \in Stages : ~disk_cache[s].open
  /\ \E s \in Stages : files[StoreFileName(env.game, s)].exists
  /\ m_pipeline_cache = VK_NULL_HANDLE
  /\ shared = NoShared

\* ------------------------------------------------------------------------
\* Properties of the precompile decision of LoadShaderCaches
\* ------------------------------------------------------------------------
\* C29: LoadShaderCaches runs CompileShaders if and only if compile-on-startup is
\* configured or forcecompile is passed, and specialized shaders are not disabled.
\* Initialize passes no forcecompile, so it runs the pass exactly when
\* compile-on-startup is on and specialized shaders are not disabled; Reload
\* passes forcecompile, so it runs the pass exactly when specialized shaders are
\* not disabled, also with compile-on-startup off.
C29_PrecompileDecision ==
  [][ /\ last'.op = "Initialize"
         => (Called(trace', "CompileShaders")
               <=> (last'.startup /\ ~last'.disable_specialized))
      /\ last'.op = "Reload"
         => (Called(trace', "CompileShaders") <=> ~last'.disable_specialized) ]_vars

\* a Reload with compile-on-startup off whose CompileShaders compiled a vertex
\* shader of the usage profile
C29_Witness ==
  /\ last.op = "Reload"
  /\ ~last.startup
  /\ Called(trace, "CompileShaders")
  /\ ReportsOf("vs") # {}


\* ------------------------------------------------------------------------
\* Properties of the state translation
\* ------------------------------------------------------------------------
VkCompareOps ==
  {"VK_COMPARE_OP_NEVER", "VK_COMPARE_OP_LESS", "VK_COMPARE_OP_EQUAL",
   "VK_COMPARE_OP_LESS_OR_EQUAL", "VK_COMPARE_OP_GREATER", "VK_COMPARE_OP_NOT_EQUAL",
   "VK_COMPARE_OP_GREATER_OR_EQUAL", "VK_COMPARE_OP_ALWAYS"}

\* the compare op the depth state translates to
CompareOpOf(state) == GetVulkanDepthStencilState(state).depthCompareOp

\* what the claim expects for a compare function
ExpectedCompareOp(mode) ==
  CASE mode = "NEVER" -> "VK_COMPARE_OP_NEVER"
    [] mode = "LESS" -> "VK_COMPARE_OP_GREATER"
    [] mode = "EQUAL" -> "VK_COMPARE_OP_EQUAL"
    [] mode = "LEQUAL" -> "VK_COMPARE_OP_GREATER_OR_EQUAL"
    [] mode = "GREATER" -> "VK_COMPARE_OP_LESS"
    [] mode = "NEQUAL" -> "VK_COMPARE_OP_NOT_EQUAL"
    [] mode = "GEQUAL" -> "VK_COMPARE_OP_LESS_OR_EQUAL"
    [] mode = "ALWAYS" -> "VK_COMPARE_OP_ALWAYS"

\* C31: GetVulkanDepthStencilState translates the compare function of a depth
\* state through a table that has an entry for each of the 8 compare functions,
\* is a bijection onto the 8 compare ops, swaps less with greater and lequal with
\* gequal, and leaves never, equal, not-equal and always as they are.
C31_DepthCompareTable ==
  last.op = "GetVulkanDepthStencilState" =>
    /\ last.state.func + 1 \in DOMAIN funcs
    /\ last.ret.depthCompareOp = ExpectedCompareOp(CompareModes[last.state.func + 1])
    /\ last.ret.depthCompareOp \in VkCompareOps
    /\ \A other \in DepthStates :
         other.func # last.state.func => CompareOpOf(other) # last.ret.depthCompareOp
    /\ \A op \in VkCompareOps : \E s \in DepthStates : CompareOpOf(s) = op

\* a depth state that compares with less was translated to GREATER
C31_Witness ==
  /\ last.op = "GetVulkanDepthStencilState"
  /\ CompareModes[last.state.func + 1] = "LESS"
  /\ last.ret.depthCompareOp = "VK_COMPARE_OP_GREATER"

\* ------------------------------------------------------------------------
\* Properties of a failed save
\* ------------------------------------------------------------------------
\* C32: a SavePipelineCache call in which the size query or the data query of
\* vkGetPipelineCacheData fails returns without deleting or changing any file, so
\* the blob saved before is still in the backing file.
C32_FailedSaveKeepsFile ==
  [][(last'.op = "SavePipelineCache" /\ ~last'.ok) =>
       /\ files' = files
       /\ files'[m_pipeline_cache_filename] = files[m_pipeline_cache_filename]
       /\ m_pipeline_cache_filename' = m_pipeline_cache_filename
       /\ Len(Records(files'[m_pipeline_cache_filename])) = last'.had]_vars

\* a save failed while the backing file held a blob, and the blob is still there
C32_Witness ==
  /\ last.op = "SavePipelineCache"
  /\ ~last.ok
  /\ last.had >= 1
  /\ files[m_pipeline_cache_filename] # NoFile
  /\ Len(Records(files[m_pipeline_cache_filename])) >= 1

\* ------------------------------------------------------------------------
\* Properties of the entries of the shader maps
\* ------------------------------------------------------------------------
\* C33: in single-threaded use (replay, lookups, precompile passes) every entry of
\* a shader map with a non-null module has compiled set, every entry with compiled
\* set has the attempted flag set, and after a Get*ShaderForUid call the entry
\* looked up has the attempted flag set and holds the handle that was returned.
C33_EntryFlagsConsistent ==
  /\ \A s \in Stages, k \in StoredKeys :
       shader_map[s][k] # NoItem =>
         /\ shader_map[s][k].module # VK_NULL_HANDLE => shader_map[s][k].compiled
         /\ shader_map[s][k].compiled => shader_map[s][k].initialized
  /\ last.op = "Get" =>
       /\ shader_map[last.stage][last.uid] # NoItem
       /\ shader_map[last.stage][last.uid].initialized
       /\ last.ret = shader_map[last.stage][last.uid].module

\* a lookup was answered from an entry that the replay of a store file had
\* inserted, while another entry holds the null module of a failed compile
C33_Witness ==
  /\ last.op = "Get"
  /\ last.hit
  /\ last.ret # VK_NULL_HANDLE
  /\ last.ret.rec > 0
  /\ \E s \in Stages, k \in StoredKeys :
       /\ shader_map[s][k] # NoItem
       /\ shader_map[s][k].compiled
       /\ shader_map[s][k].module = VK_NULL_HANDLE

\* ------------------------------------------------------------------------
\* Properties of the module handles
\* ------------------------------------------------------------------------
\* the shader modules of the five stages that were created and not destroyed
LiveModules == {h \in live : "rec" \in DOMAIN h}

\* the modules the entries of the shader maps hold
MapModules ==
  UNION {{shader_map[s][k].module : k \in {x \in StoredKeys : shader_map[s][x] # NoItem}} :
          s \in Stages} \ {VK_NULL_HANDLE}

\* C34: no shader module is leaked: every module created by the replay of a store
\* file or by a compile is held by an entry of its shader map until
\* DestroyShaderCaches destroys it, also when the file holds more than one
\* instantiable record for a key, so that after a teardown of the shader caches
\* no created module is left undestroyed.
C34_NoModuleLeaked ==
  /\ LiveModules \subseteq MapModules
  /\ last.op = "~ShaderCache" => LiveModules = {}

\* C35: whenever a shader module is destroyed (by the teardown of the shader
\* caches in Reload or the destructor, by the release of a post-processing shader,
\* by RecompileSharedShaders) no entry of the pipeline object map has a key that
\* contains the module, so no later lookup whose key holds a module with the same
\* handle value is answered with a pipeline built from the destroyed one.
C35_NoKeyOnDestroyedModule == "destroy_keyed" \notin faults

\* ------------------------------------------------------------------------
\* Properties of the teardown
\* ------------------------------------------------------------------------
\* C36: DestroyShaderCaches runs only while the vertex and pixel usage maps exist
\* (created by LoadShaderCaches and not reset since): on no path that reaches it,
\* the destruction of a ShaderCache whose Initialize was never called or failed
\* included, does it dereference a null map.
C36_MapsExistAtTeardown == "null_map" \notin faults

\* ------------------------------------------------------------------------
\* Properties of the cache result flag
\* ------------------------------------------------------------------------
\* C37: GetPipelineWithCacheResult tells the truth about the map: the first lookup
\* of a key after a clear (the key is absent) creates the pipeline and returns it
\* with the flag false, and every later lookup until the next clear returns the
\* flag true with the handle the map holds, which is the handle the first lookup
\* returned, also when that handle is null.
C37_CacheResultFlag ==
  [][ last'.op = "GetPipelineWithCacheResult"
      => /\ last'.info \notin DOMAIN m_pipeline_objects
            => /\ ~last'.ret.second
               /\ Called(trace', "CreatePipeline")
               /\ last'.info \in DOMAIN m_pipeline_objects'
               /\ m_pipeline_objects'[last'.info].first = last'.ret.first
         /\ last'.info \in DOMAIN m_pipeline_objects
            => /\ last'.ret.second
               /\ ~Called(trace', "CreatePipeline")
               /\ last'.ret.first = m_pipeline_objects[last'.info].first
               /\ m_pipeline_objects' = m_pipeline_objects ]_vars

\* a lookup of a key whose creation had failed returned null with the flag true
C37_Witness ==
  /\ last.op = "GetPipelineWithCacheResult"
  /\ last.ret.second
  /\ last.ret.first = VK_NULL_HANDLE
  /\ created[last.info] = 1

\* ------------------------------------------------------------------------
\* Properties of the post-processing shader
\* ------------------------------------------------------------------------
\* the first pass whose compile fails, or one past the last pass
FirstFailed(ok) ==
  IF \A i \in DOMAIN ok : ok[i] THEN Len(ok) + 1
  ELSE CHOOSE i \in DOMAIN ok : ~ok[i] /\ \A j \in DOMAIN ok : j < i => ok[j]

\* the releases of old shaders and the compiles among the calls of a handler
ReleasesAndCompiles(tr) ==
  SelectSeq(tr, LAMBDA x : x \in {"ClearPipelineCache", "CompileAndCreateFragmentShader"})

RECURSIVE ExpectedSteps(_, _, _)
\* pass by pass from i to k: the release of the old shader, if the pass had one,
\* then the compile
ExpectedSteps(old, i, k) ==
  IF i > k THEN << >>
  ELSE (IF old[i].m_fragment_shader # VK_NULL_HANDLE THEN << "ClearPipelineCache" >> ELSE << >>)
       \o << "CompileAndCreateFragmentShader" >> \o ExpectedSteps(old, i + 1, k)

\* C38: RecompileShaders goes through the passes in order and releases the old
\* fragment shader of a pass before it compiles the new one. It returns true
\* exactly when every pass ends with a non-null fragment shader. At the first pass
\* whose compile fails it returns false with m_ready false and the shader slot of
\* that pass reset; the passes before it keep their new shaders and the passes
\* after it are left as they were.
C38_RecompileShaders ==
  [][ last'.op = "RecompileShaders"
      => LET n == Len(m_passes)
             k == FirstFailed(last'.ok)
         IN /\ Len(m_passes') = n
            /\ last'.ret <=> k = n + 1
            /\ last'.ret <=> \A i \in 1..n : m_passes'[i].m_fragment_shader # VK_NULL_HANDLE
            /\ \A i \in 1..n :
                 i < k => m_passes'[i] = [shader |-> TRUE, m_fragment_shader |-> FragmentShader(i)]
            /\ k <= n => /\ ~m_ready'
                         /\ m_passes'[k] = NoPass
                         /\ \A i \in (k + 1)..n : m_passes'[i] = m_passes[i]
            /\ k = n + 1 => m_ready' = m_ready
            /\ ReleasesAndCompiles(trace')
                 = ExpectedSteps(m_passes, 1, IF k <= n THEN k ELSE n) ]_vars

\* a recompile of three passes failed at the second one: the first pass has its
\* new shader, the second is reset, the third still has the shader it had
C38_Witness ==
  /\ last.op = "RecompileShaders"
  /\ ~last.ret
  /\ Len(m_passes) = 3
  /\ FirstFailed(last.ok) = 2
  /\ m_passes[1].m_fragment_shader = FragmentShader(1)
  /\ m_passes[2] = NoPass
  /\ m_passes[3].m_fragment_shader = FragmentShader(3)
  /\ ~m_ready
====
